---- MODULE Spec2Model ----
(***************************************************************************)
(* TalismanGame: game sessions, talisman-multiplied rewards and linear     *)
(* vesting (contracts/core/TalismanGame.sol), together with the TLSM       *)
(* token ledger it moves tokens on.                                        *)
(*                                                                         *)
(* The model also covers the dispatcher the accounts' operations go        *)
(* through (MockEntryPoint.handleOps, with the TalismanAccount calls it    *)
(* makes) and the account factory (TalismanAccountFactory).                *)
(*                                                                         *)
(* Every external function of the contract is one action.  A call that     *)
(* reverts leaves the whole chain state as it was (a stuttering step); the *)
(* revert reason a call would give is the value of its ...Revert operator. *)
(* `last` records the most recent call that went through: function,        *)
(* caller and the values it emits in its event.                            *)
(*                                                                         *)
(* Init is the deployed system of the test fixtures: token and game        *)
(* constructed, the reward pool funded, every player funded and having     *)
(* approved the game.  Amounts and times are scaled down: the constructor  *)
(* defaults (10 TLSM, 1/60 TLSM per second, 1 hour, 60 s, 7 days) become   *)
(* small numbers that                                                      *)
(* keep their order (minSessionDuration < maxSessionDuration), and every   *)
(* amount stays far below 2^128 / 2^64, so the uint128 / uint64 casts of   *)
(* the contract are the identity on all values of the model, and no        *)
(* product or sum of the contract leaves the uint256 range (talisman       *)
(* counts are at most MaxTalismans).                                       *)
(***************************************************************************)
EXTENDS Integers, FiniteSets, Sequences, Bags, TLC

\* ---------------------------------------------------------------- bounds
MaxTime == 6            \* block.timestamp runs over 0..MaxTime under Spec
MaxTimePlayers == 4     \* and over 0..MaxTimePlayers under SpecPlayers
MaxAttempts == 2        \* retryGame is not called beyond this attempt count
MaxTalismans == 30      \* largest talisman count reported to endSession
PoolFunding == 4        \* TLSM the owner moves into the reward pool at deployment
PlayerFunding == 2      \* TLSM the owner gives each player at deployment
PlayerApproval == 4     \* TLSM each player approves the game to spend
MaxNonce == 2           \* handleOps is not run beyond this dispatcher nonce
MaxDeposit == 1         \* ETH deposited with the dispatcher in all
MaxPending == 2         \* sponsored operations validated and not yet settled
MaxTimePaymaster == 2   \* the clock runs over 0..MaxTimePaymaster under SpecPaymaster

\* ------------------------------------------------------------- constants
TALISMAN_BONUS_PERCENT == 10
MAX_TALISMAN_BONUS == 200
minSessionDuration == 2
OneDay == 2                     \* 1 days
InitialMaxCostPerUserOp == 2    \* 0.001 ether
InitialDailyLimitPerUser == 3   \* 0.01 ether

Players == {"p1", "p2"}
Owner == "owner"
Game == "game"
Holders == Players \cup {Owner, Game}
Callers == Players \cup {Owner}

TalismanInputs == {0, 5, 20, MaxTalismans}
RateInputs == {1, 2}
VestingInputs == {2, 8}
MaxDurationInputs == {3, 4}
WithdrawInputs == {1, 3}

\* account abstraction: the players' TalismanAccount clones, the keys that own
\* them, and the inputs of the factory
Keys == {"k1", "k2"}
Signatures == Keys \cup {"none"}
Bundler == "bundler"
FactoryOwners == {"k1", "k2", "k3"}
Salts == {0, 1, 2}
ZeroAddress == <<>>
NoCreate == [owner |-> "", salt |-> 0, account |-> ZeroAddress]

\* chains and entry-point addresses an operation can be signed or checked for
Domains == [entryPoint : {"entryPointA", "entryPointB"}, chainId : {1, 8453}]

\* the signature '0x' of an operation not signed yet
EmptySignature == [signer |-> "", digest |-> <<>>]

\* the frontend before buildUserOp, the account before validateUserOp
NoUserOp == [sender |-> "", nonce |-> 0, initCode |-> "0x", callData |-> "0x",
             callGasLimit |-> 0, verificationGasLimit |-> 0,
             preVerificationGas |-> 0, maxFeePerGas |-> 0,
             maxPriorityFeePerGas |-> 0, paymasterAndData |-> "0x",
             signature |-> EmptySignature]
\* paymasterAddress of the frontend, the deployed TalismanPaymaster
PaymasterAddress == "0xpaymaster"
EntryPointAddress == "entryPoint"

\* address(0) of a contract address
AddressZero == "0x0"

NoValidation == [userOp |-> NoUserOp, userOpHash |-> <<>>, validationData |-> 0]

\* useUserOperation after mount: no call of executeViaAccount yet
Idle == [step |-> "idle", usePaymaster |-> FALSE, isPending |-> FALSE,
         isSuccess |-> FALSE, error |-> "null", txHash |-> "null",
         promise |-> "none"]

VARIABLES
    now,                    \* block.timestamp
    balances,               \* TLSM balanceOf
    allowances,             \* TLSM allowance(holder, game)
    paused,                 \* Pausable._paused
    sessionCost,
    rewardRatePerSecond,
    maxSessionDuration,
    vestingDuration,
    totalUnclaimedRewards,
    sessions,               \* _sessions
    vestingSchedules,       \* _vestingSchedules
    attemptCounts,          \* _attemptCounts
    paidOut,                \* history: tokens sent to each player by claimRewards
    nonces,                 \* MockEntryPoint._nonces
    deposits,               \* MockEntryPoint._deposits
    entryPointBalance,      \* ETH held by the MockEntryPoint
    beneficiaryBalance,     \* ETH handleOps has sent to the beneficiary
    lastOps,                \* the batch of the most recent handleOps
    ownerToAccount,         \* TalismanAccountFactory.ownerToAccount
    lastCreate,             \* arguments and result of the most recent createAccount
    clones,                 \* the deployed TalismanAccount clones and their _owner
    userOp,                 \* the user operation the frontend has built (and signed)
    lastValidation,         \* arguments and result of validateUserOp, the last call
    gameContract,           \* the paymaster's registered game contract
    maxCostPerUserOp,
    dailyLimitPerUser,
    dailySponsorshipUsed,   \* per user
    lastSponsorshipReset,   \* per user
    allowedSelectors,       \* the selectors mapped to true
    paymasterDeposit,       \* the paymaster's deposit with the entry point
    contexts,               \* bag of the contexts the entry point has to settle
    hook,                   \* useUserOperation: its state and the pending call
    last                    \* the most recent call that did not revert

configVars == <<sessionCost, rewardRatePerSecond, maxSessionDuration, vestingDuration>>
tokenVars == <<balances, allowances>>
playerVars == <<sessions, vestingSchedules, attemptCounts, paidOut>>
engineVars == <<now, tokenVars, paused, configVars, totalUnclaimedRewards, playerVars>>
opsVars == <<nonces, deposits, entryPointBalance, beneficiaryBalance, lastOps>>
factoryVars == <<ownerToAccount, lastCreate, clones>>
signerVars == <<userOp, lastValidation, hook>>
limitVars == <<maxCostPerUserOp, dailyLimitPerUser>>
sponsorVars == <<dailySponsorshipUsed, lastSponsorshipReset, contexts>>
paymasterVars == <<gameContract, limitVars, sponsorVars, allowedSelectors,
                   paymasterDeposit>>
accountVars == <<opsVars, factoryVars, signerVars, paymasterVars>>
vars == <<engineVars, accountVars, last>>

OK == "ok"
Panic == "Panic(0x11)"

NoSession == [startTime |-> 0, endTime |-> 0, rewardEarned |-> 0,
              talismansCollected |-> 0, isActive |-> FALSE]
NoSchedule == [totalAmount |-> 0, claimedAmount |-> 0, startTime |-> 0, duration |-> 0]

Call(fn, caller) ==
    [fn |-> fn, caller |-> caller, amount |-> 0, duration |-> 0, multiplier |-> 0]

Min(a, b) == IF a < b THEN a ELSE b

RECURSIVE SumOver(_, _)
SumOver(f, S) ==
    IF S = {} THEN 0
    ELSE LET x == CHOOSE y \in S : TRUE IN f[x] + SumOver(f, S \ {x})

\* ------------------------------------------------------------------ Init
Init ==
    /\ now = 0
    /\ balances = [h \in Holders |->
                       IF h = Game THEN PoolFunding
                       ELSE IF h \in Players THEN PlayerFunding ELSE 0]
    /\ allowances = [h \in Callers |-> IF h \in Players THEN PlayerApproval ELSE 0]
    /\ paused = FALSE
    /\ sessionCost = 1
    /\ rewardRatePerSecond = 1
    /\ maxSessionDuration = 3
    /\ vestingDuration = 8
    /\ totalUnclaimedRewards = 0
    /\ sessions = [p \in Players |-> NoSession]
    /\ vestingSchedules = [p \in Players |-> NoSchedule]
    /\ attemptCounts = [p \in Players |-> 0]
    /\ paidOut = [p \in Players |-> 0]
    /\ nonces = [a \in Players |-> 0]
    /\ deposits = [a \in Players |-> 0]
    /\ entryPointBalance = 0
    /\ beneficiaryBalance = 0
    /\ lastOps = <<>>
    /\ ownerToAccount = [o \in FactoryOwners |-> ZeroAddress]
    /\ lastCreate = NoCreate
    /\ clones = {}
    /\ userOp = NoUserOp
    /\ lastValidation = NoValidation
    /\ hook = Idle
    /\ gameContract = AddressZero
    /\ maxCostPerUserOp = InitialMaxCostPerUserOp
    /\ dailyLimitPerUser = InitialDailyLimitPerUser
    /\ dailySponsorshipUsed = [p \in Players |-> 0]
    /\ lastSponsorshipReset = [p \in Players |-> 0]
    /\ allowedSelectors = {"startSession", "endSession", "claimRewards"}
    /\ paymasterDeposit = 0
    /\ contexts = EmptyBag
    /\ last = Call("constructor", Owner)

\* ----------------------------------------------------------- TLSM ledger
\* transferFrom does not look at the sender's balance
TransferFromRevert_NoBalanceCheck(from, amt) ==
    IF allowances[from] < amt THEN "ERC20: insufficient allowance" ELSE OK

\* ERC20.transferFrom(from, game, amt) as called through SafeERC20
TransferFromRevert(from, amt) ==
    IF allowances[from] < amt THEN "ERC20: insufficient allowance"
    ELSE IF balances[from] < amt THEN "ERC20: transfer amount exceeds balance"
    ELSE OK

\* ERC20.transfer(to, amt) by `from`
TransferRevert(from, amt) ==
    IF balances[from] < amt THEN "ERC20: transfer amount exceeds balance" ELSE OK

\* the sender is not debited
Moved_NoDebit(from, to, amt) ==
    [h \in Holders |-> IF h = to /\ from # to THEN balances[h] + amt ELSE balances[h]]

Moved(from, to, amt) ==
    [h \in Holders |->
        IF from = to THEN balances[h]
        ELSE IF h = from THEN balances[h] - amt
        ELSE IF h = to THEN balances[h] + amt
        ELSE balances[h]]

Spent(from, amt) == [allowances EXCEPT ![from] = @ - amt]

\* ---------------------------------------------------------------- vesting
Vested(schedule, t) ==
    LET elapsed == t - schedule.startTime IN
    IF elapsed >= schedule.duration
    THEN schedule.totalAmount
    ELSE (schedule.totalAmount * elapsed) \div schedule.duration

\* getClaimableAmount reverts on the checked subtraction vested - claimedAmount
GetClaimableAmountPanics(player) ==
    LET schedule == vestingSchedules[player] IN
    /\ schedule.totalAmount # 0
    /\ schedule.duration # 0
    /\ \/ now < schedule.startTime
       \/ Vested(schedule, now) < schedule.claimedAmount

GetClaimableAmount(player) ==
    LET schedule == vestingSchedules[player] IN
    IF schedule.totalAmount = 0 THEN 0
    ELSE IF schedule.duration = 0 THEN 0
    ELSE Vested(schedule, now) - schedule.claimedAmount

\* _addToVesting reads getClaimableAmount only for a non-empty schedule
AddToVestingPanics(player) ==
    /\ vestingSchedules[player].totalAmount # 0
    /\ GetClaimableAmountPanics(player)

\* an existing schedule's totalAmount is overwritten by the new reward
AddToVesting_Overwrite(player, amount) ==
    [totalAmount |-> amount,
     claimedAmount |-> vestingSchedules[player].claimedAmount,
     startTime |-> now, duration |-> vestingDuration]

\* the reset of an existing schedule also clears claimedAmount
AddToVesting_ResetClaimed(player, amount) ==
    [totalAmount |-> vestingSchedules[player].totalAmount + amount,
     claimedAmount |-> 0,
     startTime |-> now, duration |-> vestingDuration]

\* the vesting clock of an existing schedule is not restarted
AddToVesting_KeepStart(player, amount) ==
    LET schedule == vestingSchedules[player] IN
    IF schedule.totalAmount = 0
    THEN [totalAmount |-> amount, claimedAmount |-> 0,
          startTime |-> now, duration |-> vestingDuration]
    ELSE [schedule EXCEPT !.totalAmount = @ + amount]

AddToVesting(player, amount) ==
    LET schedule == vestingSchedules[player] IN
    IF schedule.totalAmount = 0
    THEN [totalAmount |-> amount, claimedAmount |-> 0,
          startTime |-> now, duration |-> vestingDuration]
    ELSE LET currentlyVested == GetClaimableAmount(player) + schedule.claimedAmount
             newTotal == schedule.totalAmount + amount
             reset == [totalAmount |-> newTotal,
                       claimedAmount |-> schedule.claimedAmount,
                       startTime |-> now, duration |-> vestingDuration]
         IN IF currentlyVested > reset.claimedAmount
            THEN \* totalAmount is lowered and then set back to newTotal
                 [reset EXCEPT !.totalAmount = newTotal]
            ELSE reset

\* ------------------------------------------------------------ startSession
\* the active-session requirement is missing
StartSessionRevert_NoActiveCheck(player) ==
    IF paused THEN "Pausable: paused"
    ELSE IF balances[Game] < totalUnclaimedRewards THEN Panic
    ELSE IF balances[Game] - totalUnclaimedRewards < maxSessionDuration * rewardRatePerSecond
         THEN "TalismanGame: insufficient reward pool"
    ELSE TransferFromRevert(player, sessionCost)

StartSessionRevert(player) ==
    IF paused THEN "Pausable: paused"
    ELSE IF sessions[player].isActive THEN "TalismanGame: session already active"
    ELSE IF balances[Game] < totalUnclaimedRewards THEN Panic
    ELSE IF balances[Game] - totalUnclaimedRewards < maxSessionDuration * rewardRatePerSecond
         THEN "TalismanGame: insufficient reward pool"
    ELSE TransferFromRevert(player, sessionCost)

\* a new session keeps the endTime and rewardEarned of the one before
StartSession_KeepsReward(player) ==
    LET r == StartSessionRevert(player) IN
    /\ IF r = OK
       THEN /\ last' = [Call("startSession", player) EXCEPT !.amount = sessionCost]
            /\ balances' = Moved(player, Game, sessionCost)
            /\ allowances' = Spent(player, sessionCost)
            /\ sessions' = [sessions EXCEPT ![player] =
                   [@ EXCEPT !.startTime = now, !.isActive = TRUE]]
            /\ attemptCounts' = [attemptCounts EXCEPT ![player] = 1]
            /\ UNCHANGED <<accountVars, now, paused, configVars, totalUnclaimedRewards,
                           vestingSchedules, paidOut>>
       ELSE UNCHANGED vars

StartSession(player) ==
    LET r == StartSessionRevert(player) IN
    /\ IF r = OK
       THEN /\ last' = [Call("startSession", player) EXCEPT !.amount = sessionCost]
            /\ balances' = Moved(player, Game, sessionCost)
            /\ allowances' = Spent(player, sessionCost)
            /\ sessions' = [sessions EXCEPT ![player] =
                   [startTime |-> now, endTime |-> 0, rewardEarned |-> 0,
                    talismansCollected |-> 0, isActive |-> TRUE]]
            /\ attemptCounts' = [attemptCounts EXCEPT ![player] = 1]
            /\ UNCHANGED <<accountVars, now, paused, configVars, totalUnclaimedRewards,
                           vestingSchedules, paidOut>>
       ELSE UNCHANGED vars

\* -------------------------------------------------------------- endSession
\* the duration is not capped at maxSessionDuration
CappedDuration_Uncapped(player) == now - sessions[player].startTime

CappedDuration(player) ==
    LET duration == now - sessions[player].startTime IN
    IF duration > maxSessionDuration THEN maxSessionDuration ELSE duration

\* the bonus is not capped at MAX_TALISMAN_BONUS
BonusPercent_Uncapped(talismansCollected) == talismansCollected * TALISMAN_BONUS_PERCENT

BonusPercent(talismansCollected) ==
    LET bonusPercent == talismansCollected * TALISMAN_BONUS_PERCENT IN
    IF bonusPercent > MAX_TALISMAN_BONUS THEN MAX_TALISMAN_BONUS ELSE bonusPercent

Multiplier(talismansCollected) == 100 + BonusPercent(talismansCollected)

SessionReward(player, talismansCollected) ==
    LET baseReward == CappedDuration(player) * rewardRatePerSecond IN
    (baseReward * Multiplier(talismansCollected)) \div 100

\* endSession without whenNotPaused
EndSessionRevert_NoPauseCheck(player) ==
    IF ~sessions[player].isActive THEN "TalismanGame: no active session"
    ELSE IF now < sessions[player].startTime + minSessionDuration
         THEN "TalismanGame: session too short"
    ELSE IF AddToVestingPanics(player) THEN Panic
    ELSE OK

EndSessionRevert(player) ==
    IF paused THEN "Pausable: paused"
    ELSE IF ~sessions[player].isActive THEN "TalismanGame: no active session"
    ELSE IF now < sessions[player].startTime + minSessionDuration
         THEN "TalismanGame: session too short"
    ELSE IF AddToVestingPanics(player) THEN Panic
    ELSE OK

EndSession(player, talismansCollected) ==
    LET r == EndSessionRevert(player)
        reward == SessionReward(player, talismansCollected)
    IN
    /\ IF r = OK
       THEN /\ last' = [Call("endSession", player) EXCEPT
                            !.amount = reward,
                            !.duration = CappedDuration(player),
                            !.multiplier = Multiplier(talismansCollected)]
            /\ sessions' = [sessions EXCEPT ![player] =
                   [@ EXCEPT !.endTime = now, !.rewardEarned = reward,
                             !.talismansCollected = talismansCollected,
                             !.isActive = FALSE]]
            /\ vestingSchedules' = [vestingSchedules EXCEPT ![player] =
                   AddToVesting(player, reward)]
            /\ totalUnclaimedRewards' = totalUnclaimedRewards + reward
            /\ UNCHANGED <<accountVars, now, tokenVars, paused, configVars, attemptCounts, paidOut>>
       ELSE UNCHANGED vars

\* --------------------------------------------------------------- retryGame
\* a retry is accepted without a session
RetryGameRevert_NoActiveCheck(player) ==
    IF paused THEN "Pausable: paused"
    ELSE TransferFromRevert(player, sessionCost)

RetryGameRevert(player) ==
    IF paused THEN "Pausable: paused"
    ELSE IF ~sessions[player].isActive THEN "TalismanGame: no active session"
    ELSE TransferFromRevert(player, sessionCost)

\* a retry is not counted
RetryGame_NoCount(player) ==
    LET r == RetryGameRevert(player) IN
    /\ attemptCounts[player] < MaxAttempts
    /\ IF r = OK
       THEN /\ last' = [Call("retryGame", player) EXCEPT !.amount = sessionCost]
            /\ balances' = Moved(player, Game, sessionCost)
            /\ allowances' = Spent(player, sessionCost)
            /\ UNCHANGED <<accountVars, now, paused, configVars, totalUnclaimedRewards,
                           playerVars>>
       ELSE UNCHANGED vars

RetryGame(player) ==
    LET r == RetryGameRevert(player) IN
    /\ attemptCounts[player] < MaxAttempts
    /\ IF r = OK
       THEN /\ last' = [Call("retryGame", player) EXCEPT !.amount = sessionCost]
            /\ balances' = Moved(player, Game, sessionCost)
            /\ allowances' = Spent(player, sessionCost)
            /\ attemptCounts' = [attemptCounts EXCEPT ![player] = @ + 1]
            /\ UNCHANGED <<accountVars, now, paused, configVars, totalUnclaimedRewards,
                           sessions, vestingSchedules, paidOut>>
       ELSE UNCHANGED vars

\* ------------------------------------------------------------ claimRewards
ClaimRewardsRevert(player) ==
    IF paused THEN "Pausable: paused"
    ELSE IF GetClaimableAmountPanics(player) THEN Panic
    ELSE IF ~(GetClaimableAmount(player) > 0) THEN "TalismanGame: nothing to claim"
    ELSE IF totalUnclaimedRewards < GetClaimableAmount(player) THEN Panic
    ELSE TransferRevert(Game, GetClaimableAmount(player))

ClaimRewards(player) ==
    LET r == ClaimRewardsRevert(player)
        claimable == GetClaimableAmount(player)
    IN
    /\ IF r = OK
       THEN /\ last' = [Call("claimRewards", player) EXCEPT !.amount = claimable]
            /\ vestingSchedules' = [vestingSchedules EXCEPT
                   ![player].claimedAmount = @ + claimable]
            /\ totalUnclaimedRewards' = totalUnclaimedRewards - claimable
            /\ balances' = Moved(Game, player, claimable)
            /\ paidOut' = [paidOut EXCEPT ![player] = @ + claimable]
            /\ UNCHANGED <<accountVars, now, allowances, paused, configVars, sessions, attemptCounts>>
       ELSE UNCHANGED vars

\* ------------------------------------------------------------------- admin
\* onlyOwner lets every caller through
OnlyOwnerRevert_Anyone(caller) == OK

OnlyOwnerRevert(caller) ==
    IF caller # Owner THEN "Ownable: caller is not the owner" ELSE OK

SetSessionCostRevert(caller, cost) ==
    IF caller # Owner THEN OnlyOwnerRevert(caller)
    ELSE IF ~(cost > 0) THEN "TalismanGame: zero cost" ELSE OK

SetSessionCost(caller, cost) ==
    LET r == SetSessionCostRevert(caller, cost) IN
    /\ IF r = OK
       THEN /\ last' = Call("setSessionCost", caller)
            /\ sessionCost' = cost
            /\ UNCHANGED <<accountVars, now, tokenVars, paused, rewardRatePerSecond, maxSessionDuration,
                           vestingDuration, totalUnclaimedRewards, playerVars>>
       ELSE UNCHANGED vars

SetRewardRateRevert(caller, rate) ==
    IF caller # Owner THEN OnlyOwnerRevert(caller)
    ELSE IF ~(rate > 0) THEN "TalismanGame: zero rate" ELSE OK

SetRewardRate(caller, rate) ==
    LET r == SetRewardRateRevert(caller, rate) IN
    /\ IF r = OK
       THEN /\ last' = Call("setRewardRate", caller)
            /\ rewardRatePerSecond' = rate
            /\ UNCHANGED <<accountVars, now, tokenVars, paused, sessionCost, maxSessionDuration,
                           vestingDuration, totalUnclaimedRewards, playerVars>>
       ELSE UNCHANGED vars

SetVestingDurationRevert(caller, duration) ==
    IF caller # Owner THEN OnlyOwnerRevert(caller)
    ELSE IF ~(duration > 0) THEN "TalismanGame: zero duration" ELSE OK

SetVestingDuration(caller, duration) ==
    LET r == SetVestingDurationRevert(caller, duration) IN
    /\ IF r = OK
       THEN /\ last' = Call("setVestingDuration", caller)
            /\ vestingDuration' = duration
            /\ UNCHANGED <<accountVars, now, tokenVars, paused, sessionCost, rewardRatePerSecond,
                           maxSessionDuration, totalUnclaimedRewards, playerVars>>
       ELSE UNCHANGED vars

SetMaxSessionDurationRevert(caller, duration) ==
    IF caller # Owner THEN OnlyOwnerRevert(caller)
    ELSE IF ~(duration > minSessionDuration) THEN "TalismanGame: max must exceed min"
    ELSE OK

SetMaxSessionDuration(caller, duration) ==
    LET r == SetMaxSessionDurationRevert(caller, duration) IN
    /\ IF r = OK
       THEN /\ last' = Call("setMaxSessionDuration", caller)
            /\ maxSessionDuration' = duration
            /\ UNCHANGED <<accountVars, now, tokenVars, paused, sessionCost, rewardRatePerSecond,
                           vestingDuration, totalUnclaimedRewards, playerVars>>
       ELSE UNCHANGED vars

DepositRewardPoolRevert(caller, amount) ==
    IF caller # Owner THEN OnlyOwnerRevert(caller)
    ELSE TransferFromRevert(caller, amount)

DepositRewardPool(caller, amount) ==
    LET r == DepositRewardPoolRevert(caller, amount) IN
    /\ IF r = OK
       THEN /\ last' = [Call("depositRewardPool", caller) EXCEPT !.amount = amount]
            /\ balances' = Moved(caller, Game, amount)
            /\ allowances' = Spent(caller, amount)
            /\ UNCHANGED <<accountVars, now, paused, configVars, totalUnclaimedRewards, playerVars>>
       ELSE UNCHANGED vars

WithdrawRewardPoolRevert(caller, amount) ==
    IF caller # Owner THEN OnlyOwnerRevert(caller)
    ELSE IF balances[Game] < totalUnclaimedRewards THEN Panic
    ELSE IF ~(amount <= balances[Game] - totalUnclaimedRewards)
         THEN "TalismanGame: insufficient available"
    ELSE TransferRevert(Game, amount)

WithdrawRewardPool(caller, amount) ==
    LET r == WithdrawRewardPoolRevert(caller, amount) IN
    /\ IF r = OK
       THEN /\ last' = [Call("withdrawRewardPool", caller) EXCEPT !.amount = amount]
            /\ balances' = Moved(Game, caller, amount)
            /\ UNCHANGED <<accountVars, now, allowances, paused, configVars,
                           totalUnclaimedRewards, playerVars>>
       ELSE UNCHANGED vars

PauseRevert(caller) ==
    IF caller # Owner THEN OnlyOwnerRevert(caller)
    ELSE IF paused THEN "Pausable: paused" ELSE OK

Pause(caller) ==
    LET r == PauseRevert(caller) IN
    /\ IF r = OK
       THEN /\ last' = Call("pause", caller)
            /\ paused' = TRUE
            /\ UNCHANGED <<accountVars, now, tokenVars, configVars, totalUnclaimedRewards, playerVars>>
       ELSE UNCHANGED vars

UnpauseRevert(caller) ==
    IF caller # Owner THEN OnlyOwnerRevert(caller)
    ELSE IF ~paused THEN "Pausable: not paused" ELSE OK

Unpause(caller) ==
    LET r == UnpauseRevert(caller) IN
    /\ IF r = OK
       THEN /\ last' = Call("unpause", caller)
            /\ paused' = FALSE
            /\ UNCHANGED <<accountVars, now, tokenVars, configVars, totalUnclaimedRewards, playerVars>>
       ELSE UNCHANGED vars

\* -------------------------------------------------------- MockEntryPoint
\* TalismanAccount._owner of each player's account, set by initialize
AccountOwner(account) == IF account = "p1" THEN "k1" ELSE "k2"

\* callData of an operation: execute(token, 0, transfer(owner, 1)), or bytes
\* that match no function of the account
CallDataInputs ==
    {[fn |-> "execute", amount |-> 1], [fn |-> "unknown", amount |-> 0]}
NonceInputs == {0, 1}

\* signature is the key that signed the operation's hash, "none" for a
\* missing or malformed signature
\* operations the sender pays for itself
Ops == [sender : Players, nonce : NonceInputs,
        callData : CallDataInputs, signature : Signatures,
        paymasterAndData : {"0x"}]

\* batches of one operation, and of two operations built from the same nonce
\* read and signed with the same key
Batches ==
    {<<op>> : op \in Ops}
        \cup {b \in Ops \X Ops : /\ b[1].nonce = b[2].nonce
                                  /\ b[1].signature = b[2].signature}

\* batches of one operation that names the paymaster
SponsoredBatches ==
    {<<[op EXCEPT !.paymasterAndData = PaymasterAddress]>> : op \in Ops}

\* _validateSignature returns 0: the recovered signer is the account's owner
SignatureValid(op) == op.signature = AccountOwner(op.sender)

\* revert data of a call without a reason
EmptyRevert == ""

\* op.sender.call(op.callData) on token balances bal: execute passes
\* onlyOwnerOrEntryPoint for the dispatcher and _call bubbles up the token's
\* revert; unmatched callData reverts without data
InnerCallRevert(op, bal) ==
    IF op.callData.fn # "execute" THEN EmptyRevert
    ELSE IF bal[op.sender] < op.callData.amount
         THEN "ERC20: transfer amount exceeds balance"
    ELSE OK

InnerCall(op, bal) ==
    [bal EXCEPT ![op.sender] = @ - op.callData.amount,
                ![Owner] = @ + op.callData.amount]

\* an inner call that fails without data is reported as a success
BubbleUp_Swallow(r) == IF r = EmptyRevert THEN OK ELSE r

\* the revert of handleOps for an inner call that failed with r
BubbleUp(r) == IF r = EmptyRevert THEN "MockEntryPoint: inner call failed" ELSE r

\* the loop of handleOps from operation i on, over the balances and nonces
\* the earlier operations left; reverted is the reason the loop stops with
RECURSIVE RunOps(_, _, _)
RunOps(ops, i, st) ==
    IF i > Len(ops) THEN st
    ELSE LET op == ops[i]
             r == BubbleUp(InnerCallRevert(op, st.balances))
         IN  IF r # OK THEN [st EXCEPT !.reverted = r]
             ELSE RunOps(ops, i + 1,
                         [st EXCEPT !.nonces[op.sender] = @ + 1,
                                    !.balances = InnerCall(op, st.balances)])

HandleOpsResult(ops) ==
    RunOps(ops, 1, [balances |-> balances, nonces |-> nonces, reverted |-> OK])

HandleOpsRevert(ops) == HandleOpsResult(ops).reverted

HandleOps(ops) ==
    LET st == HandleOpsResult(ops) IN
    /\ \A a \in Players : st.nonces[a] <= MaxNonce
    /\ IF st.reverted = OK
       THEN /\ last' = Call("handleOps", Bundler)
            /\ lastOps' = ops
            /\ nonces' = st.nonces
            /\ balances' = st.balances
            /\ entryPointBalance' = 0
            /\ beneficiaryBalance' = beneficiaryBalance + entryPointBalance
            /\ UNCHANGED <<now, allowances, paused, configVars, totalUnclaimedRewards,
                           playerVars, deposits, factoryVars, signerVars,
                           paymasterVars>>
       ELSE UNCHANGED vars

\* the nonce of another account is returned
GetNonce_IgnoresSender(sender, key) == [key |-> key, sequence |-> nonces["p1"]]

\* getNonce(sender, key): _nonces[sender] | (key << 64), as the key in the
\* upper 192 bits and the sequence number in the lower 64, the nonce being
\* below 2 ^ 64
GetNonce(sender, key) == [key |-> key, sequence |-> nonces[sender]]

\* depositTo(account) with msg.value 1
DepositTo(account) ==
    /\ SumOver(deposits, Players) < MaxDeposit
    /\ last' = [Call("depositTo", Bundler) EXCEPT !.amount = 1]
    /\ deposits' = [deposits EXCEPT ![account] = @ + 1]
    /\ entryPointBalance' = entryPointBalance + 1
    /\ UNCHANGED <<engineVars, nonces, beneficiaryBalance, lastOps, factoryVars,
                   signerVars, paymasterVars>>

\* ------------------------------------------------ TalismanAccountFactory
\* Clones.predictDeterministicAddress of keccak256(owner, salt): one address
\* per pair
PredictAddress(owner, salt) == <<owner, salt>>

\* getAddress ignores the recorded account
GetAddress_AlwaysPredict(owner, salt) == PredictAddress(owner, salt)

GetAddress(owner, salt) ==
    IF ownerToAccount[owner] # ZeroAddress THEN ownerToAccount[owner]
    ELSE PredictAddress(owner, salt)

\* cloneDeterministic fails on an address that holds an account already
CreateAccountRevert(owner, salt) ==
    IF ownerToAccount[owner] # ZeroAddress THEN OK
    ELSE IF \E o \in FactoryOwners : ownerToAccount[o] = PredictAddress(owner, salt)
         THEN "ERC1167: create2 failed"
    ELSE OK

HasAccount(owner) == ownerToAccount[owner] # ZeroAddress

\* createAccount clones anew for an owner who has an account
AccountFor_AlwaysClone(owner, salt) == PredictAddress(owner, salt)

\* the address createAccount returns: the recorded account, else a new clone
AccountFor(owner, salt) ==
    IF ownerToAccount[owner] # ZeroAddress
    THEN ownerToAccount[owner]
    ELSE PredictAddress(owner, salt)

CreateAccount(owner, salt) ==
    LET r == CreateAccountRevert(owner, salt)
        account == AccountFor(owner, salt)
    IN
    /\ IF r = OK
       THEN /\ last' = Call("createAccount", Bundler)
            /\ ownerToAccount' = [ownerToAccount EXCEPT ![owner] = account]
            /\ lastCreate' = [owner |-> owner, salt |-> salt, account |-> account]
            /\ clones' = IF \E c \in clones : c.address = account
                         THEN clones
                         ELSE clones \cup {[address |-> account, owner |-> owner]}
            /\ UNCHANGED <<engineVars, opsVars, signerVars, paymasterVars>>
       ELSE UNCHANGED vars

\* -------------------------------------------------------------------- time
\* a later block: block.timestamp advances
Tick(limit) ==
    /\ now < limit
    /\ now' = now + 1
    /\ last' = Call("tick", Owner)
    /\ UNCHANGED <<accountVars, tokenVars, paused, configVars, totalUnclaimedRewards, playerVars>>

\* ------------------------------------------- user operation hash and signing
\* keccak256 is collision resistant: the digest stands for its preimage
Keccak256(x) == <<"keccak256", x>>

GasPriceInputs == {10, 20}

\* every value of the fields other than the signature
UnsignedOperations ==
    [sender : Players, nonce : NonceInputs, initCode : {"0x", "0xab"},
     callData : {"0xstart", "0xend"},
     callGasLimit : {500000, 1}, verificationGasLimit : {150000, 1},
     preVerificationGas : {50000, 1},
     maxFeePerGas : {2 * g : g \in GasPriceInputs},
     maxPriorityFeePerGas : {g \div 10 : g \in GasPriceInputs},
     paymasterAndData : {"0x", PaymasterAddress},
     signature : {EmptySignature}]

\* packUserOp: the ten fields before the signature, the dynamic ones hashed
PackUserOp(op) ==
    <<op.sender, op.nonce, Keccak256(op.initCode), Keccak256(op.callData),
      op.callGasLimit, op.verificationGasLimit, op.preVerificationGas,
      op.maxFeePerGas, op.maxPriorityFeePerGas, Keccak256(op.paymasterAndData)>>

\* the signer's hash leaves the chain id out
GetUserOpHash_NoChain(op, entryPointAddress, chainId) ==
    Keccak256(<<Keccak256(PackUserOp(op)), entryPointAddress>>)

\* getUserOpHash of the frontend, the hash the wallet signs
GetUserOpHash(op, entryPointAddress, chainId) ==
    Keccak256(<<Keccak256(PackUserOp(op)), entryPointAddress, chainId>>)

\* MockEntryPoint.getUserOpHash at entryPoint on chainId: abi.encode of the
\* whole struct, the chain id and the dispatcher's address
EntryPointGetUserOpHash(op, entryPoint, chainId) ==
    Keccak256(<<<<op.sender, op.nonce, op.initCode, op.callData, op.callGasLimit,
                  op.verificationGasLimit, op.preVerificationGas, op.maxFeePerGas,
                  op.maxPriorityFeePerGas, op.paymasterAndData, op.signature>>,
                chainId, entryPoint>>)

\* ECDSA.toEthSignedMessageHash, the prefix personal_sign adds
ToEthSignedMessageHash(hash) ==
    Keccak256(<<"\\x19Ethereum Signed Message:\\n32", hash>>)

\* walletClient.signMessage({ message: { raw: hash } }) with the key of signer
SignMessage(signer, hash) ==
    [signer |-> signer, digest |-> ToEthSignedMessageHash(hash)]

\* ECDSA.recover reverts on a signature that is not 65 bytes long
RecoverRevert(digest, signature) ==
    IF signature = EmptySignature THEN "ECDSA: invalid signature length" ELSE OK

\* ECDSA.recover: the signer for the digest signed, an unrelated address for
\* any other digest
Recover(digest, signature) ==
    IF signature.digest = digest
    THEN signature.signer
    ELSE <<"recovered", signature, digest>>

\* _validateSignature of the account of op.sender: 0 accepts, 1 rejects
ValidateSignature(op, userOpHash) ==
    IF Recover(ToEthSignedMessageHash(userOpHash), op.signature)
           # AccountOwner(op.sender)
    THEN 1
    ELSE 0

\* buildUserOp(callData, usePaymaster) for the account and nonce the hooks
\* hold and the gas price the client reports
UserOperation(accountAddress, nonce, callData, usePaymaster, gasPrice) ==
    [sender |-> accountAddress, nonce |-> nonce, initCode |-> "0x",
     callData |-> callData,
     callGasLimit |-> 500000, verificationGasLimit |-> 150000,
     preVerificationGas |-> 50000,
     maxFeePerGas |-> gasPrice * 2,
     maxPriorityFeePerGas |-> gasPrice \div 10,
     paymasterAndData |-> IF usePaymaster THEN PaymasterAddress ELSE "0x",
     signature |-> EmptySignature]

BuildUserOp(accountAddress, nonce, callData, usePaymaster, gasPrice) ==
    /\ userOp' = UserOperation(accountAddress, nonce, callData, usePaymaster,
                               gasPrice)
    /\ last' = Call("buildUserOp", accountAddress)
    /\ lastValidation' = NoValidation
    /\ UNCHANGED <<engineVars, opsVars, factoryVars, paymasterVars, hook>>

\* signUserOp followed by { ...userOp, signature }: the wallet of signer
\* signs the hash for its entry point and chain
SignUserOp(signer, entryPointAddress, chainId) ==
    /\ userOp # NoUserOp
    /\ userOp' = [userOp EXCEPT !.signature =
                      SignMessage(signer,
                                  GetUserOpHash(userOp, entryPointAddress, chainId))]
    /\ last' = Call("signUserOp", signer)
    /\ lastValidation' = NoValidation
    /\ UNCHANGED <<engineVars, opsVars, factoryVars, paymasterVars, hook>>

\* validateUserOp(userOp, userOpHash, 0) on the account of userOp.sender:
\* onlyEntryPoint, then _validateSignature
ValidateUserOpRevert(caller, op, userOpHash) ==
    IF caller # EntryPointAddress THEN "TalismanAccount: not EntryPoint"
    ELSE RecoverRevert(ToEthSignedMessageHash(userOpHash), op.signature)

ValidateUserOp(caller, op, userOpHash) ==
    IF ValidateUserOpRevert(caller, op, userOpHash) = OK
    THEN /\ lastValidation' = [userOp |-> op, userOpHash |-> userOpHash,
                               validationData |-> ValidateSignature(op, userOpHash)]
         /\ last' = Call("validateUserOp", op.sender)
         /\ UNCHANGED <<engineVars, opsVars, factoryVars, paymasterVars, userOp,
                        hook>>
    ELSE UNCHANGED vars

\* onlyOwnerOrEntryPoint
AuthorizedRevert_Anyone(caller, account) == OK

AuthorizedRevert(caller, account) ==
    IF caller = AccountOwner(account) \/ caller = EntryPointAddress THEN OK
    ELSE "TalismanAccount: not authorized"

\* executeBatch(dest, value, func) of account with nDest destinations, zero
\* values and func[i] = transfer(owner, amounts[i]) on the token: the
\* modifier, the length check, then _call for each entry, which bubbles up
\* the token's revert
ExecuteBatchRevert(caller, account, nDest, amounts) ==
    IF AuthorizedRevert(caller, account) # OK
    THEN AuthorizedRevert(caller, account)
    ELSE IF nDest # Len(amounts) THEN "TalismanAccount: length mismatch"
    ELSE IF balances[account] < SumOver(amounts, DOMAIN amounts)
         THEN "ERC20: transfer amount exceeds balance"
    ELSE OK

ExecuteBatch(caller, account, nDest, amounts) ==
    IF ExecuteBatchRevert(caller, account, nDest, amounts) = OK
    THEN /\ balances' = [balances EXCEPT
                            ![account] = @ - SumOver(amounts, DOMAIN amounts),
                            ![Owner] = @ + SumOver(amounts, DOMAIN amounts)]
         /\ last' = [Call("executeBatch", caller) EXCEPT
                        !.amount = SumOver(amounts, DOMAIN amounts)]
         /\ UNCHANGED <<now, allowances, paused, configVars,
                        totalUnclaimedRewards, playerVars, accountVars>>
    ELSE UNCHANGED vars

\* execute(dest, value, func) of account with value zero and
\* func = transfer(owner, amount) on the token: the modifier, then _call
Execute(caller, account, amount) ==
    IF ExecuteBatchRevert(caller, account, 1, <<amount>>) = OK
    THEN /\ balances' = [balances EXCEPT ![account] = @ - amount,
                                         ![Owner] = @ + amount]
         /\ last' = [Call("execute", caller) EXCEPT !.amount = amount]
         /\ UNCHANGED <<now, allowances, paused, configVars,
                        totalUnclaimedRewards, playerVars, accountVars>>
    ELSE UNCHANGED vars

\* ------------------------------------- useUserOperation.executeViaAccount
\* the catch and finally blocks after an await threw error
Thrown(error) ==
    [hook EXCEPT !.step = "idle", !.error = error, !.isPending = FALSE,
                 !.promise = "rejected"]

\* executeViaAccount(token, 0, transfer(owner, 1), usePaymaster) up to its
\* first await: the throw without an account comes before the state is reset
ExecuteViaAccount(hasAccount, usePaymaster) ==
    /\ hook.step = "idle"
    /\ hook' = IF ~hasAccount THEN [hook EXCEPT !.promise = "rejected"]
               ELSE [step |-> "build", usePaymaster |-> usePaymaster,
                     isPending |-> TRUE, isSuccess |-> FALSE, error |-> "null",
                     txHash |-> "null", promise |-> "pending"]
    /\ last' = Call("executeViaAccount", "")
    /\ UNCHANGED <<engineVars, opsVars, factoryVars, paymasterVars, userOp,
                   lastValidation>>

\* await buildUserOp(callData, usePaymaster): accountAddress is "" and
\* publicClient FALSE when undefined, gasPrice is -1 when getGasPrice rejects;
\* the nonce is the one read from getNonce(accountAddress, 0)
AwaitBuildUserOp(accountAddress, publicClient, gasPrice) ==
    /\ hook.step = "build"
    /\ IF accountAddress = "" \/ ~publicClient \/ gasPrice < 0
       THEN /\ hook' = Thrown(IF accountAddress = "" THEN "No smart account"
                              ELSE IF ~publicClient THEN "No public client"
                              ELSE "getGasPrice failed")
            /\ last' = Call("executeViaAccount", accountAddress)
            /\ UNCHANGED <<userOp, lastValidation>>
       ELSE /\ hook' = [hook EXCEPT !.step = "sign"]
            /\ userOp' = UserOperation(accountAddress, nonces[accountAddress],
                                       [fn |-> "execute", amount |-> 1],
                                       hook.usePaymaster, gasPrice)
            /\ last' = Call("buildUserOp", accountAddress)
            /\ lastValidation' = NoValidation
    /\ UNCHANGED <<engineVars, opsVars, factoryVars, paymasterVars>>

\* userOp.signature = await signUserOp(userOp): walletClient is the key of
\* the connected wallet, "" when undefined; the user may reject the request
AwaitSignUserOp(walletClient, entryPointAddress, chainId, rejected) ==
    /\ hook.step = "sign"
    /\ IF walletClient = "" \/ rejected
       THEN /\ hook' = Thrown(IF walletClient = "" THEN "No wallet client"
                              ELSE "User rejected the request")
            /\ last' = Call("executeViaAccount", walletClient)
            /\ UNCHANGED <<userOp, lastValidation>>
       ELSE /\ hook' = [hook EXCEPT !.step = "submit"]
            /\ userOp' = [userOp EXCEPT !.signature =
                              SignMessage(walletClient,
                                          GetUserOpHash(userOp, entryPointAddress,
                                                        chainId))]
            /\ last' = Call("signUserOp", walletClient)
            /\ lastValidation' = NoValidation
    /\ UNCHANGED <<engineVars, opsVars, factoryVars, paymasterVars>>

\* await submitUserOp(userOp), setTxHash, setIsSuccess, refetchNonce:
\* handleOps([userOp], walletClient.account.address) sent by the wallet
AwaitSubmitUserOp(walletClient) ==
    LET st == HandleOpsResult(<<userOp>>) IN
    /\ hook.step = "submit"
    /\ \A a \in Players : st.nonces[a] <= MaxNonce
    /\ IF walletClient = "" \/ st.reverted # OK
       THEN /\ hook' = Thrown(IF walletClient = "" THEN "No wallet client"
                              ELSE st.reverted)
            /\ last' = Call("executeViaAccount", walletClient)
            /\ UNCHANGED <<engineVars, opsVars, factoryVars, paymasterVars,
                           userOp, lastValidation>>
       ELSE /\ hook' = [hook EXCEPT !.step = "idle", !.txHash = "0xhash",
                                    !.isSuccess = TRUE, !.isPending = FALSE,
                                    !.promise = "resolved"]
            /\ last' = Call("handleOps", walletClient)
            /\ lastOps' = <<userOp>>
            /\ nonces' = st.nonces
            /\ balances' = st.balances
            /\ entryPointBalance' = 0
            /\ beneficiaryBalance' = beneficiaryBalance + entryPointBalance
            /\ UNCHANGED <<now, allowances, paused, configVars,
                           totalUnclaimedRewards, playerVars, deposits,
                           factoryVars, paymasterVars, userOp, lastValidation>>

\* the hashes an entry point at a domain can hand to validateUserOp
UserOpHashInputs(op) ==
    {GetUserOpHash(op, d.entryPoint, d.chainId) : d \in Domains}
        \cup {EntryPointGetUserOpHash(op, d.entryPoint, d.chainId) : d \in Domains}

\* ---------------------------------------------------------- TalismanPaymaster
PaymasterCallers == {EntryPointAddress, Bundler}
MaxCostInputs == {1, 2}
ActualCostInputs == {0, 1, 2}
\* setLimits arguments: lower limits, and the limits of the constructor
LimitInputs == {<<1, 1>>, <<InitialMaxCostPerUserOp, InitialDailyLimitPerUser>>}

\* op.callData: an execute(dest, value, func) call, another account function,
\* or fewer than four bytes (fn ""); func may be shorter than a selector ("")
GameCallInputs ==
    {[fn |-> "execute", dest |-> Game, selector |-> "startSession"],
     [fn |-> "execute", dest |-> Game, selector |-> "retryGame"],
     [fn |-> "execute", dest |-> Game, selector |-> ""],
     [fn |-> "execute", dest |-> "token", selector |-> "startSession"],
     [fn |-> "executeBatch", dest |-> Game, selector |-> "startSession"],
     [fn |-> "", dest |-> AddressZero, selector |-> ""]}

\* block.timestamp: Unix time, more than a day past the epoch at deployment
BlockTimestamp == OneDay + now

\* the window is never over
ShouldResetDailyLimit_Never(user) == FALSE

ShouldResetDailyLimit(user) ==
    BlockTimestamp >= lastSponsorshipReset[user] + OneDay

\* dailySponsorshipUsed[user] once _resetDailyLimitIfNeeded(user) has run
UsedAfterReset(user) ==
    IF ShouldResetDailyLimit(user) THEN 0 ELSE dailySponsorshipUsed[user]

\* the destination is not compared with the game contract
ValidateGameCall_AnyDest(callData) ==
    /\ callData.fn = "execute"
    /\ callData.selector # ""
    /\ callData.selector \in allowedSelectors

ValidateGameCall(callData) ==
    IF callData.fn = "" THEN FALSE
    ELSE IF callData.fn = "execute"
    THEN IF callData.dest # gameContract THEN FALSE
         ELSE IF callData.selector = "" THEN FALSE
         ELSE callData.selector \in allowedSelectors
    ELSE FALSE

\* abi.encode(sender, maxCost)
Context(sender, maxCost) == [sender |-> sender, maxCost |-> maxCost]

ValidatePaymasterUserOpRevert(caller, sender, callData, maxCost) ==
    IF caller # EntryPointAddress THEN "TalismanPaymaster: not EntryPoint"
    ELSE IF ~(maxCost <= maxCostPerUserOp) THEN "TalismanPaymaster: cost too high"
    ELSE IF ~(UsedAfterReset(sender) + maxCost <= dailyLimitPerUser)
    THEN "TalismanPaymaster: daily limit exceeded"
    ELSE IF ~ValidateGameCall(callData) THEN "TalismanPaymaster: invalid call"
    ELSE OK

\* validatePaymasterUserOp(userOp, userOpHash, maxCost); the entry point keeps
\* the context returned until it settles the operation
ValidatePaymasterUserOp(caller, sender, callData, maxCost) ==
    /\ BagCardinality(contexts) < MaxPending
    /\ IF ValidatePaymasterUserOpRevert(caller, sender, callData, maxCost) = OK
       THEN /\ dailySponsorshipUsed' =
                   [dailySponsorshipUsed EXCEPT
                       ![sender] = UsedAfterReset(sender) + maxCost]
            /\ lastSponsorshipReset' =
                   [lastSponsorshipReset EXCEPT
                       ![sender] = IF ShouldResetDailyLimit(sender)
                                   THEN BlockTimestamp
                                   ELSE @]
            /\ contexts' = contexts (+) SetToBag({Context(sender, maxCost)})
            /\ last' = [Call("validatePaymasterUserOp", caller)
                           EXCEPT !.amount = maxCost]
            /\ UNCHANGED <<engineVars, opsVars, factoryVars, signerVars,
                           gameContract, limitVars, allowedSelectors,
                           paymasterDeposit>>
       ELSE UNCHANGED vars

\* the contexts validatePaymasterUserOp can return
Contexts == {Context(a, m) : a \in Players, m \in MaxCostInputs}

\* the refund of postOp
Refund(context, actualGasCost) ==
    IF actualGasCost < context.maxCost THEN context.maxCost - actualGasCost ELSE 0

PostOpRevert(caller, context, actualGasCost) ==
    IF caller # EntryPointAddress THEN "TalismanPaymaster: not EntryPoint"
    ELSE IF dailySponsorshipUsed[context.sender] < Refund(context, actualGasCost)
    THEN Panic
    ELSE OK

\* postOp(mode, context, actualGasCost) for a context the entry point holds
PostOp(caller, context, actualGasCost) ==
    /\ BagIn(context, contexts)
    /\ IF PostOpRevert(caller, context, actualGasCost) = OK
       THEN /\ dailySponsorshipUsed' =
                   [dailySponsorshipUsed EXCEPT
                       ![context.sender] = @ - Refund(context, actualGasCost)]
            /\ contexts' = contexts (-) SetToBag({context})
            /\ last' = [Call("postOp", caller) EXCEPT !.amount = actualGasCost]
            /\ UNCHANGED <<engineVars, opsVars, factoryVars, signerVars,
                           gameContract, limitVars, lastSponsorshipReset,
                           allowedSelectors, paymasterDeposit>>
       ELSE UNCHANGED vars

SetGameContractRevert(caller, gameContract_) ==
    IF caller # Owner THEN OnlyOwnerRevert(caller)
    ELSE IF gameContract_ = AddressZero THEN "TalismanPaymaster: zero address"
    ELSE OK

SetGameContract(caller, gameContract_) ==
    IF SetGameContractRevert(caller, gameContract_) = OK
    THEN /\ gameContract' = gameContract_
         /\ last' = Call("setGameContract", caller)
         /\ UNCHANGED <<engineVars, opsVars, factoryVars, signerVars, limitVars,
                        sponsorVars, allowedSelectors, paymasterDeposit>>
    ELSE UNCHANGED vars

SetLimits(caller, maxCostPerUserOp_, dailyLimitPerUser_) ==
    IF OnlyOwnerRevert(caller) = OK
    THEN /\ maxCostPerUserOp' = maxCostPerUserOp_
         /\ dailyLimitPerUser' = dailyLimitPerUser_
         /\ last' = Call("setLimits", caller)
         /\ UNCHANGED <<engineVars, opsVars, factoryVars, signerVars, gameContract,
                        sponsorVars, allowedSelectors, paymasterDeposit>>
    ELSE UNCHANGED vars

\* setAllowedSelector(selector, allowed)
SetAllowedSelector(caller, selector, allowed) ==
    IF OnlyOwnerRevert(caller) = OK
    THEN /\ allowedSelectors' = IF allowed THEN allowedSelectors \cup {selector}
                                           ELSE allowedSelectors \ {selector}
         /\ last' = Call("setAllowedSelector", caller)
         /\ UNCHANGED <<engineVars, opsVars, factoryVars, signerVars, gameContract,
                        limitVars, sponsorVars, paymasterDeposit>>
    ELSE UNCHANGED vars

\* deposit() with msg.value value: entryPoint.depositTo for the paymaster
Deposit(caller, value) ==
    /\ paymasterDeposit < MaxDeposit
    /\ IF OnlyOwnerRevert(caller) = OK
       THEN /\ paymasterDeposit' = paymasterDeposit + value
            /\ entryPointBalance' = entryPointBalance + value
            /\ last' = [Call("deposit", caller) EXCEPT !.amount = value]
            /\ UNCHANGED <<engineVars, nonces, deposits, beneficiaryBalance, lastOps,
                           factoryVars, signerVars, gameContract, limitVars,
                           sponsorVars, allowedSelectors>>
       ELSE UNCHANGED vars

\* withdrawTo(to, amount): entryPoint.withdrawTo checks the deposit and sends
\* the ETH, which fails without a reason if the entry point holds less
WithdrawToRevert(caller, amount) ==
    IF caller # Owner THEN OnlyOwnerRevert(caller)
    ELSE IF ~(paymasterDeposit >= amount) THEN "Insufficient deposit"
    ELSE IF entryPointBalance < amount THEN EmptyRevert
    ELSE OK

WithdrawTo(caller, amount) ==
    IF WithdrawToRevert(caller, amount) = OK
    THEN /\ paymasterDeposit' = paymasterDeposit - amount
         /\ entryPointBalance' = entryPointBalance - amount
         /\ last' = [Call("withdrawTo", caller) EXCEPT !.amount = amount]
         /\ UNCHANGED <<engineVars, nonces, deposits, beneficiaryBalance, lastOps,
                        factoryVars, signerVars, gameContract, limitVars,
                        sponsorVars, allowedSelectors>>
    ELSE UNCHANGED vars

GetRemainingDailyAllowanceRevert(user) ==
    IF ShouldResetDailyLimit(user) THEN OK
    ELSE IF dailyLimitPerUser < dailySponsorshipUsed[user] THEN Panic
    ELSE OK

GetRemainingDailyAllowance(user) ==
    IF ShouldResetDailyLimit(user)
    THEN dailyLimitPerUser
    ELSE dailyLimitPerUser - dailySponsorshipUsed[user]

\* -------------------------------------------------------------------- Next
\* one player and the owner: sessions, claims and reconfiguration over time
Next ==
    \/ Tick(MaxTime)
    \/ \E p \in {"p1"} : StartSession(p)
    \/ \E p \in {"p1"}, n \in TalismanInputs : EndSession(p, n)
    \/ \E p \in {"p1"} : RetryGame(p)
    \/ \E p \in {"p1"} : ClaimRewards(p)
    \/ \E rate \in RateInputs : SetRewardRate(Owner, rate)
    \/ \E d \in VestingInputs : SetVestingDuration(Owner, d)
    \/ \E d \in MaxDurationInputs : SetMaxSessionDuration(Owner, d)

Spec == Init /\ [][Next]_vars

\* all players under the deployed configuration, which the owner may pause
NextPlayers ==
    \/ Tick(MaxTimePlayers)
    \/ Pause(Owner)
    \/ Unpause(Owner)
    \/ \E p \in Players : StartSession(p)
    \/ \E p \in Players, n \in TalismanInputs : EndSession(p, n)
    \/ \E p \in Players : RetryGame(p)
    \/ \E p \in Players : ClaimRewards(p)

SpecPlayers == Init /\ [][NextPlayers]_vars

\* all players under the deployed configuration and the pause, ending their
\* sessions without talismans or with the full bonus
NextSessions ==
    \/ Tick(MaxTimePlayers)
    \/ Pause(Owner)
    \/ Unpause(Owner)
    \/ \E p \in Players : StartSession(p)
    \/ \E p \in Players, n \in {0, 20} : EndSession(p, n)
    \/ \E p \in Players : RetryGame(p)
    \/ \E p \in Players : ClaimRewards(p)

SpecSessions == Init /\ [][NextSessions]_vars

\* all players under the deployed configuration, with the owner withdrawing
\* from the reward pool
NextPool ==
    \/ Tick(MaxTimePlayers)
    \/ \E p \in Players : StartSession(p)
    \/ \E p \in Players, n \in TalismanInputs : EndSession(p, n)
    \/ \E p \in Players : ClaimRewards(p)
    \/ \E amount \in WithdrawInputs : WithdrawRewardPool(Owner, amount)

SpecPool == Init /\ [][NextPool]_vars

\* the dispatcher: batches of operations of the players' accounts, and deposits
NextOps ==
    \/ \E ops \in Batches : HandleOps(ops)
    \/ \E a \in Players : DepositTo(a)

SpecOps == Init /\ [][NextOps]_vars

\* the dispatcher handed operations that name the paymaster
NextSponsored ==
    \/ \E ops \in SponsoredBatches : HandleOps(ops)
    \/ \E a \in Players : DepositTo(a)

SpecSponsored == Init /\ [][NextSponsored]_vars

\* the account factory
NextFactory ==
    \E owner \in FactoryOwners, salt \in Salts : CreateAccount(owner, salt)

SpecFactory == Init /\ [][NextFactory]_vars

\* the frontend building and signing, the account validating
NextSigner ==
    \/ \E a \in Players, n \in NonceInputs, c \in {"0xstart", "0xend"},
          usePaymaster \in BOOLEAN, g \in GasPriceInputs :
          BuildUserOp(a, n, c, usePaymaster, g)
    \/ \E k \in Keys, d \in Domains : SignUserOp(k, d.entryPoint, d.chainId)
    \/ \E h \in UserOpHashInputs(userOp) : ValidateUserOp(EntryPointAddress, userOp, h)

SpecSigner == Init /\ [][NextSigner]_vars

\* the account called directly by its owner, the entry point and others, next
\* to the client that builds and signs operations
NextAccount ==
    \/ \E c \in Keys \cup {EntryPointAddress, Bundler}, a \in Players,
          m \in {1, 2} : Execute(c, a, m)
    \/ \E c \in Keys \cup {EntryPointAddress, Bundler}, a \in Players,
          n \in {1, 2}, ms \in {<<1>>, <<1, 1>>} : ExecuteBatch(c, a, n, ms)
    \/ \E a \in Players, usePaymaster \in BOOLEAN :
          BuildUserOp(a, nonces[a], "0xstart", usePaymaster, 10)
    \/ \E k \in Keys : SignUserOp(k, "entryPointA", 1)
    \/ \E c \in {EntryPointAddress, Bundler}, h \in UserOpHashInputs(userOp) :
          ValidateUserOp(c, userOp, h)

SpecAccount == Init /\ [][NextAccount]_vars

\* a client running executeViaAccount, next to a bundler that submits the
\* operation the client holds, once or twice in a batch
NextHook ==
    \/ \E hasAccount \in BOOLEAN, usePaymaster \in BOOLEAN :
          ExecuteViaAccount(hasAccount, usePaymaster)
    \/ \E a \in Players \cup {""}, publicClient \in BOOLEAN, g \in {-1, 10} :
          AwaitBuildUserOp(a, publicClient, g)
    \/ \E w \in Keys \cup {""}, rejected \in BOOLEAN :
          AwaitSignUserOp(w, "entryPointA", 1, rejected)
    \/ \E w \in Keys \cup {""} : AwaitSubmitUserOp(w)
    \/ /\ userOp # NoUserOp
       /\ \E ops \in {<<userOp>>, <<userOp, userOp>>} : HandleOps(ops)

SpecHook == Init /\ [][NextHook]_vars

\* the paymaster: sponsorship, settlement, limits and time
NextPaymaster ==
    \/ Tick(MaxTimePaymaster)
    \/ \E c \in PaymasterCallers, a \in Players, cd \in GameCallInputs,
          m \in MaxCostInputs : ValidatePaymasterUserOp(c, a, cd, m)
    \/ \E c \in PaymasterCallers, x \in Contexts, g \in ActualCostInputs :
          PostOp(c, x, g)
    \/ SetGameContract(Owner, Game)
    \/ \E l \in LimitInputs : SetLimits(Owner, l[1], l[2])

SpecPaymaster == Init /\ [][NextPaymaster]_vars

\* the admin functions of the game and of the paymaster, called by the owner
\* and by the players; the owner has approved no TLSM to the game
NextAdmin ==
    \E c \in Callers :
          \/ \E cost \in {1, 2} : SetSessionCost(c, cost)
          \/ \E rate \in RateInputs : SetRewardRate(c, rate)
          \/ \E d \in VestingInputs : SetVestingDuration(c, d)
          \/ \E d \in MaxDurationInputs : SetMaxSessionDuration(c, d)
          \/ DepositRewardPool(c, 1)
          \/ \E amount \in WithdrawInputs : WithdrawRewardPool(c, amount)
          \/ Pause(c)
          \/ Unpause(c)
          \/ \E g \in {Game, AddressZero} : SetGameContract(c, g)
          \/ \E l \in LimitInputs : SetLimits(c, l[1], l[2])
          \/ \E allowed \in BOOLEAN : SetAllowedSelector(c, "retryGame", allowed)
          \/ Deposit(c, 1)
          \/ WithdrawTo(c, 1)

SpecAdmin == Init /\ [][NextAdmin]_vars

TypeOK ==
    /\ now \in 0..MaxTime
    /\ hook.step \in {"idle", "build", "sign", "submit"}
    /\ hook.isPending \in BOOLEAN /\ hook.isSuccess \in BOOLEAN
    /\ \A h \in Holders : balances[h] \in 0..(PoolFunding + 2 * PlayerFunding)
    /\ paused \in BOOLEAN

\* ================================================================== claims
Unclaimed(p) == vestingSchedules[p].totalAmount - vestingSchedules[p].claimedAmount

SumUnclaimed == SumOver([p \in Players |-> Unclaimed(p)], Players)

Succeeded(fn) == last.fn = fn

\* this step is a call of fn by p that went through
By(fn, p) == last'.fn = fn /\ last'.caller = p

\* C1: for every player claimedAmount <= totalAmount in every reachable state,
\* the tokens claimRewards has sent to the player equal claimedAmount (so they
\* never exceed totalAmount), and no step lowers claimedAmount.
C1_ClaimConservation ==
    /\ [](\A p \in Players :
            /\ vestingSchedules[p].claimedAmount <= vestingSchedules[p].totalAmount
            /\ paidOut[p] = vestingSchedules[p].claimedAmount
            /\ paidOut[p] <= vestingSchedules[p].totalAmount)
    /\ [][\A p \in Players :
            vestingSchedules'[p].claimedAmount >= vestingSchedules[p].claimedAmount]_vars

\* a second successful claim, made after a further session was credited
C1_Witness ==
    /\ Succeeded("claimRewards")
    /\ vestingSchedules[last.caller].claimedAmount > last.amount
    /\ vestingSchedules[last.caller].totalAmount > sessions[last.caller].rewardEarned
    /\ sessions[last.caller].rewardEarned > 0

\* C2: totalUnclaimedRewards equals the sum over all players of
\* totalAmount - claimedAmount in every reachable state; a successful endSession
\* raises both by the credited reward, a successful claimRewards lowers both by
\* the claimed amount.
C2_UnclaimedIsSum ==
    /\ [](totalUnclaimedRewards = SumUnclaimed)
    /\ [][/\ last'.fn = "endSession"
                => /\ totalUnclaimedRewards' = totalUnclaimedRewards + last'.amount
                   /\ SumUnclaimed' = SumUnclaimed + last'.amount
          /\ last'.fn = "claimRewards"
                => /\ totalUnclaimedRewards' = totalUnclaimedRewards - last'.amount
                   /\ SumUnclaimed' = SumUnclaimed - last'.amount]_vars

\* both players hold unclaimed rewards and one of them has just claimed a part
C2_Witness ==
    /\ Succeeded("claimRewards")
    /\ \A p \in Players : Unclaimed(p) > 0
    /\ \E p \in Players : vestingSchedules[p].claimedAmount > 0

\* C3: for every player, now and at every later time T the vested amount of
\* the player's schedule covers claimedAmount, so getClaimableAmount never
\* fails (the schedule's startTime is never later than now).
C3_VestedCoversClaimed ==
    \A p \in Players :
        /\ vestingSchedules[p].startTime <= now
        /\ \A T \in now .. MaxTime :
              (vestingSchedules[p].totalAmount # 0 /\ vestingSchedules[p].duration # 0)
                  => Vested(vestingSchedules[p], T) >= vestingSchedules[p].claimedAmount
        /\ ~GetClaimableAmountPanics(p)

\* C4: a startSession by a player whose session is active is rejected with
\* 'session already active' (with 'Pausable: paused' while the engine is
\* paused), and no startSession of that player goes through:
\* balances, session fields, attempt count and pool counter stay as they are.
C4_SessionExclusive ==
    /\ [](\A p \in Players :
            sessions[p].isActive
                => /\ StartSessionRevert(p) # OK
                   /\ ~paused => StartSessionRevert(p)
                                     = "TalismanGame: session already active")
    /\ [][\A p \in Players : By("startSession", p) => ~sessions[p].isActive]_vars

\* a player with an active session holds the tokens and the allowance for
\* another one, and the pool has the capacity for it
C4_Witness ==
    \E p \in Players :
        /\ ~paused
        /\ sessions[p].isActive
        /\ TransferFromRevert(p, sessionCost) = OK
        /\ balances[Game] - totalUnclaimedRewards >= maxSessionDuration * rewardRatePerSecond

\* C5: while not paused, endSession succeeds exactly when the caller has an
\* active session that has run for minSessionDuration; otherwise it is rejected
\* with 'no active session' or 'session too short', and no endSession goes
\* through without that precondition.
C5_EndSessionPrecondition ==
    /\ [](\A p \in Players :
            ~paused =>
               /\ (EndSessionRevert(p) = OK) <=>
                      /\ sessions[p].isActive
                      /\ now - sessions[p].startTime >= minSessionDuration
               /\ ~sessions[p].isActive
                      => EndSessionRevert(p) = "TalismanGame: no active session"
               /\ (sessions[p].isActive
                      /\ now - sessions[p].startTime < minSessionDuration)
                      => EndSessionRevert(p) = "TalismanGame: session too short")
    /\ [][\A p \in Players :
            By("endSession", p)
                => /\ sessions[p].isActive
                   /\ now - sessions[p].startTime >= minSessionDuration]_vars

\* C6: a successful endSession(n) credits
\* floor(min(now - startTime, maxSessionDuration) * rate * (100 + min(10n, 200)) / 100);
\* the duration used never exceeds maxSessionDuration, and the same value goes
\* to session.rewardEarned, the vesting totalAmount and totalUnclaimedRewards.
C6_RewardFormula ==
    [][\A p \in Players :
          By("endSession", p)
              => LET n == sessions'[p].talismansCollected
                     d == Min(now - sessions[p].startTime, maxSessionDuration)
                     reward == (d * rewardRatePerSecond * (100 + Min(10 * n, 200))) \div 100
                 IN /\ last'.duration = d
                    /\ last'.duration <= maxSessionDuration
                    /\ last'.amount = reward
                    /\ sessions'[p].rewardEarned = reward
                    /\ vestingSchedules'[p].totalAmount
                           = vestingSchedules[p].totalAmount + reward
                    /\ totalUnclaimedRewards' = totalUnclaimedRewards + reward]_vars

\* a session that stayed open longer than maxSessionDuration has been ended
C6_Witness ==
    /\ Succeeded("endSession")
    /\ sessions[last.caller].endTime - sessions[last.caller].startTime > maxSessionDuration
    /\ sessions[last.caller].rewardEarned > 0

\* C7: the multiplier of a successful endSession(n) lies in [100, 300], is
\* non-decreasing in n, and is 300 for every n >= 20, where the reward is the
\* one the same session would earn with 20 talismans.
C7_MultiplierBounds ==
    [][\A p \in Players :
          By("endSession", p)
              => LET n == sessions'[p].talismansCollected IN
                 /\ last'.multiplier >= 100
                 /\ last'.multiplier <= 300
                 /\ \A m \in 0..MaxTalismans :
                       /\ m <= n => Multiplier(m) <= last'.multiplier
                       /\ m >= n => Multiplier(m) >= last'.multiplier
                 /\ n >= 20 => /\ last'.multiplier = 300
                               /\ last'.amount = SessionReward(p, 20)]_vars

\* a session has been ended with more than 20 talismans
C7_Witness ==
    /\ Succeeded("endSession")
    /\ sessions[last.caller].talismansCollected > 20
    /\ last.multiplier = 300

C9_ClaimFrame ==
    [][\A p \in Players :
          By("claimRewards", p)
              => LET claimable == Vested(vestingSchedules[p], now)
                                      - vestingSchedules[p].claimedAmount
                 IN /\ claimable > 0
                    /\ last'.amount = claimable
                    /\ balances'[p] = balances[p] + claimable
                    /\ balances'[Game] = balances[Game] - claimable
                    /\ \A h \in Holders \ {p, Game} : balances'[h] = balances[h]
                    /\ totalUnclaimedRewards' = totalUnclaimedRewards - claimable
                    /\ vestingSchedules'[p] = [vestingSchedules[p] EXCEPT
                                                  !.claimedAmount = @ + claimable]
                    /\ \A q \in Players \ {p} :
                          vestingSchedules'[q] = vestingSchedules[q]
                    /\ UNCHANGED <<now, allowances, paused, configVars,
                                   sessions, attemptCounts>>]_vars

\* a player has claimed a partly vested reward while the other player has an
\* active session and a schedule of their own
C9_Witness ==
    /\ Succeeded("claimRewards")
    /\ Unclaimed(last.caller) > 0
    /\ \E q \in Players \ {last.caller} :
          sessions[q].isActive /\ vestingSchedules[q].totalAmount > 0

\* C10: once the schedule's duration has elapsed, a claimRewards by a player
\* with unclaimed rewards succeeds and leaves claimedAmount = totalAmount, and
\* with nothing left unclaimed it is rejected with 'nothing to claim'.
C10_FullyVestedClaim ==
    /\ [](\A p \in Players :
            (/\ ~paused
             /\ vestingSchedules[p].totalAmount > 0
             /\ now - vestingSchedules[p].startTime >= vestingSchedules[p].duration)
                => IF Unclaimed(p) > 0
                   THEN ClaimRewardsRevert(p) = OK
                   ELSE ClaimRewardsRevert(p) = "TalismanGame: nothing to claim")
    /\ [][\A p \in Players :
            (/\ By("claimRewards", p)
             /\ now - vestingSchedules[p].startTime >= vestingSchedules[p].duration)
                => vestingSchedules'[p].claimedAmount
                       = vestingSchedules'[p].totalAmount]_vars

\* the capacity startSession requires of the pool; under SpecPlayers and
\* SpecPool the configuration is fixed, so a session is closed under the
\* capacity that was checked when it was started
MaxPotentialReward == maxSessionDuration * rewardRatePerSecond

\* C11: the reward credited by the endSession that closes a session never
\* exceeds the maxSessionDuration * rewardRatePerSecond that startSession
\* checked, for every talisman count and every elapsed time.
C11_RewardWithinCapacity ==
    [][\A p \in Players :
          By("endSession", p) => last'.amount <= MaxPotentialReward]_vars

\* C12: the engine's token balance is at least totalUnclaimedRewards in every
\* reachable state.
C12_PoolSolvent == balances[Game] >= totalUnclaimedRewards

\* C13: whenever the engine's balance minus totalUnclaimedRewards is below
\* maxSessionDuration * rewardRatePerSecond, startSession is rejected, with
\* 'insufficient reward pool' for an unpaused caller without an active session,
\* and no startSession goes through: nothing is debited, no session is created.
C13_InsufficientPoolRejected ==
    /\ [](\A p \in Players :
            balances[Game] - totalUnclaimedRewards < MaxPotentialReward
                => /\ StartSessionRevert(p) # OK
                   /\ (~paused /\ ~sessions[p].isActive)
                         => StartSessionRevert(p)
                               = "TalismanGame: insufficient reward pool")
    /\ [][\A p \in Players :
            By("startSession", p)
                => balances[Game] - totalUnclaimedRewards >= MaxPotentialReward]_vars

\* C14: withdrawRewardPool(amount) by the owner goes through only if
\* amount <= balance - totalUnclaimedRewards and then moves exactly amount from
\* the engine to the owner, leaving the balance at or above
\* totalUnclaimedRewards; a larger amount is rejected with 'insufficient
\* available'.
C14_WithdrawCapped ==
    /\ [](\A amount \in WithdrawInputs :
            amount > balances[Game] - totalUnclaimedRewards
                => WithdrawRewardPoolRevert(Owner, amount)
                      = "TalismanGame: insufficient available")
    /\ [][By("withdrawRewardPool", Owner)
            => /\ last'.amount <= balances[Game] - totalUnclaimedRewards
               /\ balances' = Moved(Game, Owner, last'.amount)
               /\ balances'[Owner] = balances[Owner] + last'.amount
               /\ balances'[Game] = balances[Game] - last'.amount
               /\ balances'[Game] >= totalUnclaimedRewards'
               /\ UNCHANGED <<totalUnclaimedRewards, playerVars, configVars>>]_vars

\* C15: handleOps executes an operation only if its signature is a valid
\* signature by the owner of op.sender; an operation with a missing, malformed
\* or non-owner signature never goes through.
C15_OnlySignedOps ==
    [][last'.fn = "handleOps"
          => \A i \in DOMAIN lastOps' : SignatureValid(lastOps'[i])]_vars

\* the dispatcher nonce of op i's sender when the loop of handleOps reaches it
NonceBefore(ops, i) ==
    nonces[ops[i].sender]
        + Cardinality({j \in 1..(i - 1) : ops[j].sender = ops[i].sender})

\* C16: handleOps executes an operation only if its nonce field equals the
\* sender's current nonce; of two operations built from the same nonce read at
\* most one goes through.
C16_NonceChecked ==
    [][\A ops \in Batches :
          (last'.fn = "handleOps" /\ lastOps' = ops)
              => \A i \in DOMAIN ops : ops[i].nonce = NonceBefore(ops, i)]_vars

\* C17: an operation that handleOps has executed is not executed again by the
\* next handleOps.
C17_NoReplay ==
    [][(last.fn = "handleOps" /\ last'.fn = "handleOps")
          => \A i \in DOMAIN lastOps', j \in DOMAIN lastOps :
                 lastOps'[i] # lastOps[j]]_vars

\* token balances when the loop of handleOps reaches op i, the earlier
\* operations having gone through
RECURSIVE BalancesBefore(_, _)
BalancesBefore(ops, i) ==
    IF i = 1 THEN balances ELSE InnerCall(ops[i - 1], BalancesBefore(ops, i - 1))

\* the first operation of the batch whose inner call fails, 0 if none does
RECURSIVE FirstFailed(_, _)
FirstFailed(ops, i) ==
    IF i > Len(ops) THEN 0
    ELSE IF InnerCallRevert(ops[i], BalancesBefore(ops, i)) # OK THEN i
    ELSE FirstFailed(ops, i + 1)

InnerError(ops) ==
    LET k == FirstFailed(ops, 1) IN InnerCallRevert(ops[k], BalancesBefore(ops, k))

\* C18 as stated: a batch with a failing inner call makes handleOps fail with
\* that inner call's own error.
C18_OriginalError ==
    \A ops \in Batches :
        FirstFailed(ops, 1) # 0 => HandleOpsRevert(ops) = InnerError(ops)

\* C18: a batch with a failing inner call makes handleOps fail, with the inner
\* call's reason when it has one and with 'MockEntryPoint: inner call failed'
\* when the inner call failed without data; a nonce advances, a token moves
\* or the balance is swept to the beneficiary only in a handleOps all of whose
\* inner calls went through.
C18_AtomicBatch ==
    /\ [](\A ops \in Batches :
            FirstFailed(ops, 1) # 0
                => HandleOpsRevert(ops) =
                      IF InnerError(ops) = EmptyRevert
                      THEN "MockEntryPoint: inner call failed"
                      ELSE InnerError(ops))
    /\ [][(nonces' # nonces \/ balances' # balances
              \/ beneficiaryBalance' # beneficiaryBalance)
            => \E ops \in Batches :
                   /\ last'.fn = "handleOps"
                   /\ lastOps' = ops
                   /\ FirstFailed(ops, 1) = 0
                   /\ balances' = BalancesBefore(ops, Len(ops) + 1)
                   /\ \A a \in Players :
                         nonces'[a] = nonces[a]
                             + Cardinality({i \in DOMAIN ops : ops[i].sender = a})]_vars

\* the dispatcher holds ETH and a batch is at hand whose first operation goes
\* through and whose second fails with the token's reason
C18_Witness ==
    /\ entryPointBalance > 0
    /\ \E a \in Players : nonces[a] > 0
    /\ \E ops \in Batches :
          /\ FirstFailed(ops, 1) = 2
          /\ InnerError(ops) = "ERC20: transfer amount exceeds balance"

\* C19: getAddress(owner, salt) read before createAccount(owner, salt) equals
\* getAddress(owner, salt) read after it, and is the address createAccount
\* returns and records in ownerToAccount.
C19_CreateAtPredicted ==
    [][\A owner \in FactoryOwners, salt \in Salts :
          (/\ last'.fn = "createAccount"
           /\ lastCreate'.owner = owner
           /\ lastCreate'.salt = salt)
              => /\ GetAddress(owner, salt)' = GetAddress(owner, salt)
                 /\ lastCreate'.account = GetAddress(owner, salt)
                 /\ ownerToAccount'[owner] = lastCreate'.account]_vars

\* an account was created for an owner who had none, and a createAccount of
\* an owner with an account returned under another salt
C19_Witness ==
    /\ last.fn = "createAccount"
    /\ ownerToAccount[lastCreate.owner] # ZeroAddress
    /\ lastCreate.account # PredictAddress(lastCreate.owner, lastCreate.salt)
    /\ \E owner \in FactoryOwners : ownerToAccount[owner] = ZeroAddress

\* C20: getAddress(owner, salt) returns the same address in every reachable
\* state of the factory, whatever createAccount calls happen in between.
C20_AddressStable ==
    [][\A owner \in FactoryOwners, salt \in Salts :
          GetAddress(owner, salt)' = GetAddress(owner, salt)]_vars

\* C21: once an account exists for an owner, every later createAccount of that
\* owner, under any salt, returns that account, deploys nothing and leaves
\* ownerToAccount, hasAccount and the account's owner as they were.
C21_FirstWriteWins ==
    [][\A owner \in FactoryOwners :
          (/\ HasAccount(owner)
           /\ last'.fn = "createAccount"
           /\ lastCreate'.owner = owner)
              => /\ lastCreate'.account = ownerToAccount[owner]
                 /\ HasAccount(owner)'
                 /\ UNCHANGED <<ownerToAccount, clones>>
                 /\ \E c \in clones' :
                        c.address = lastCreate'.account /\ c.owner = owner]_vars

\* createAccount was called under another salt for an owner with an account
C21_Witness ==
    /\ last.fn = "createAccount"
    /\ HasAccount(lastCreate.owner)
    /\ lastCreate.account = ownerToAccount[lastCreate.owner]
    /\ lastCreate.account # PredictAddress(lastCreate.owner, lastCreate.salt)
    /\ Cardinality(clones) > 1

\* C22: the operation hash leaves the signature out and covers every other
\* field, for the hash the signer computes and for the hash the dispatcher
\* computes: the operation at hand and any operation that differs from it only
\* in the signature have the same hash, any other operation has another hash.
C22_HashCoversAllButSignature ==
    \A d \in Domains, op \in UnsignedOperations :
        LET same == op = [userOp EXCEPT !.signature = EmptySignature]
        IN
        /\ (GetUserOpHash(op, d.entryPoint, d.chainId)
                = GetUserOpHash(userOp, d.entryPoint, d.chainId)) <=> same
        /\ (EntryPointGetUserOpHash(op, d.entryPoint, d.chainId)
                = EntryPointGetUserOpHash(userOp, d.entryPoint, d.chainId)) <=> same

\* C23: an operation has different hashes under two different (entry point,
\* chain id) pairs, and a signature the account accepts for the hash under one
\* pair is rejected by validateUserOp for the hash under another.
C23_DomainSeparation ==
    /\ [](\A d1, d2 \in Domains :
             d1 # d2 =>
                 /\ GetUserOpHash(userOp, d1.entryPoint, d1.chainId)
                        # GetUserOpHash(userOp, d2.entryPoint, d2.chainId)
                 /\ EntryPointGetUserOpHash(userOp, d1.entryPoint, d1.chainId)
                        # EntryPointGetUserOpHash(userOp, d2.entryPoint, d2.chainId)
                 /\ (/\ userOp.signature # EmptySignature
                     /\ ValidateSignature(
                            userOp,
                            GetUserOpHash(userOp, d1.entryPoint, d1.chainId)) = 0)
                        => ValidateSignature(
                               userOp,
                               GetUserOpHash(userOp, d2.entryPoint, d2.chainId)) = 1)
    /\ [][\A d1, d2 \in Domains :
             (/\ last'.fn = "validateUserOp"
              /\ d1 # d2
              /\ lastValidation'.userOp.signature =
                     SignMessage(AccountOwner(lastValidation'.userOp.sender),
                                 GetUserOpHash(lastValidation'.userOp,
                                               d1.entryPoint, d1.chainId))
              /\ lastValidation'.userOpHash =
                     GetUserOpHash(lastValidation'.userOp, d2.entryPoint, d2.chainId))
                 => lastValidation'.validationData = 1]_vars

\* validateUserOp rejected an owner signature made for another chain or
\* another entry point
C23_Witness ==
    /\ last.fn = "validateUserOp"
    /\ lastValidation.validationData = 1
    /\ \E d1, d2 \in Domains :
          /\ d1 # d2
          /\ lastValidation.userOp.signature =
                 SignMessage(AccountOwner(lastValidation.userOp.sender),
                             GetUserOpHash(lastValidation.userOp,
                                           d1.entryPoint, d1.chainId))
          /\ lastValidation.userOpHash =
                 GetUserOpHash(lastValidation.userOp, d2.entryPoint, d2.chainId)

\* this step is a validatePaymasterUserOp for sender a and maxCost m that went
\* through
Sponsored(a, m) ==
    /\ last'.fn = "validatePaymasterUserOp"
    /\ last'.amount = m
    /\ contexts' = contexts (+) SetToBag({Context(a, m)})

\* C24: validatePaymasterUserOp succeeds exactly when the caller is the entry
\* point, maxCost <= maxCostPerUserOp, the sender's usage in the current daily
\* window plus maxCost <= dailyLimitPerUser and callData is an execute call to
\* the registered game contract with an allowed selector (startSession,
\* endSession and claimRewards after construction); a validation that goes
\* through raises the sender's usage in the window by exactly maxCost and
\* touches no other sender, and no counter or reset timestamp changes without
\* an accepted call.
C24_ValidationRule ==
    /\ [](/\ last.fn = "constructor"
              => allowedSelectors = {"startSession", "endSession", "claimRewards"}
          /\ \A c \in PaymasterCallers, a \in Players, cd \in GameCallInputs,
                m \in MaxCostInputs \cup {InitialMaxCostPerUserOp + 1} :
                (ValidatePaymasterUserOpRevert(c, a, cd, m) = OK)
                    <=> /\ c = EntryPointAddress
                        /\ m <= maxCostPerUserOp
                        /\ (IF OneDay + now >= lastSponsorshipReset[a] + OneDay
                            THEN 0
                            ELSE dailySponsorshipUsed[a]) + m <= dailyLimitPerUser
                        /\ cd.fn = "execute"
                        /\ cd.dest = gameContract
                        /\ cd.selector \in allowedSelectors)
    /\ [][/\ \A a \in Players, m \in MaxCostInputs :
                Sponsored(a, m)
                    => /\ \E cd \in GameCallInputs :
                              ValidatePaymasterUserOpRevert(
                                  EntryPointAddress, a, cd, m) = OK
                       /\ dailySponsorshipUsed'[a]
                              = (IF OneDay + now >= lastSponsorshipReset[a] + OneDay
                                 THEN 0
                                 ELSE dailySponsorshipUsed[a]) + m
                       /\ \A b \in Players \ {a} :
                              /\ dailySponsorshipUsed'[b] = dailySponsorshipUsed[b]
                              /\ lastSponsorshipReset'[b] = lastSponsorshipReset[b]
          /\ (\/ dailySponsorshipUsed' # dailySponsorshipUsed
              \/ lastSponsorshipReset' # lastSponsorshipReset)
                 => last'.fn \in {"validatePaymasterUserOp", "postOp"}
          /\ last'.fn = "validatePaymasterUserOp"
                 => \E a \in Players, m \in MaxCostInputs : Sponsored(a, m)]_vars

\* a second reservation of a sender inside the same window went through
C24_Witness ==
    /\ last.fn = "validatePaymasterUserOp"
    /\ \E a \in Players :
          /\ BagIn(Context(a, last.amount), contexts)
          /\ dailySponsorshipUsed[a] > last.amount
          /\ BagCardinality(contexts) = 2

\* C25: for every user dailySponsorshipUsed[user] <= dailyLimitPerUser in
\* every reachable state, and getRemainingDailyAllowance(user) does not fail.
C25_UsageWithinLimit ==
    \A p \in Players :
        /\ dailySponsorshipUsed[p] <= dailyLimitPerUser
        /\ GetRemainingDailyAllowanceRevert(p) = OK

\* C26: postOp of a context the entry point holds, with an actual cost of at
\* most the maxCost reserved, never fails.
C26_SettlementNeverFails ==
    \A x \in Contexts, g \in ActualCostInputs :
        (BagIn(x, contexts) /\ g <= x.maxCost)
            => PostOpRevert(EntryPointAddress, x, g) = OK

\* C27 as stated: getRemainingDailyAllowance reports the full limit exactly
\* when a validation at that moment would reset the sender's window.
C27_FullLimitOnlyOnReset ==
    \A p \in Players :
        (/\ GetRemainingDailyAllowanceRevert(p) = OK
         /\ GetRemainingDailyAllowance(p) = dailyLimitPerUser)
            <=> OneDay + now >= lastSponsorshipReset[p] + OneDay

\* C27: the window is evaluated lazily per sender: a validation at a time
\* >= lastSponsorshipReset[sender] + one day starts from usage 0 and sets
\* lastSponsorshipReset[sender] to now, an earlier one carries the usage over
\* and keeps the timestamp; the passing of time changes nothing in the
\* paymaster; getRemainingDailyAllowance reports the full limit whenever a
\* validation at that moment would reset.
C27_LazyWindow ==
    /\ [](\A p \in Players :
             OneDay + now >= lastSponsorshipReset[p] + OneDay
                 => /\ GetRemainingDailyAllowanceRevert(p) = OK
                    /\ GetRemainingDailyAllowance(p) = dailyLimitPerUser)
    /\ [][/\ \A a \in Players, m \in MaxCostInputs :
                Sponsored(a, m)
                    => IF OneDay + now >= lastSponsorshipReset[a] + OneDay
                       THEN /\ dailySponsorshipUsed'[a] = 0 + m
                            /\ lastSponsorshipReset'[a] = OneDay + now
                       ELSE /\ dailySponsorshipUsed'[a] = dailySponsorshipUsed[a] + m
                            /\ lastSponsorshipReset'[a] = lastSponsorshipReset[a]
          /\ now' # now => UNCHANGED paymasterVars]_vars

\* a validation dropped an earlier reservation of the sender, still to be
\* settled, because the window was over
C27_Witness ==
    /\ last.fn = "validatePaymasterUserOp"
    /\ \E a \in Players :
          /\ BagIn(Context(a, last.amount), contexts)
          /\ \A x \in BagToSet(contexts) : x.sender = a
          /\ BagCardinality(contexts) = 2
          /\ dailySponsorshipUsed[a] = last.amount
          /\ lastSponsorshipReset[a] = OneDay + now
          /\ now > 0

\* op.callData as _validateGameCall decodes it
DecodedCall(op) ==
    IF op.callData.fn = "execute"
    THEN [fn |-> "execute", dest |-> "token", selector |-> "transfer"]
    ELSE [fn |-> op.callData.fn, dest |-> AddressZero, selector |-> ""]

\* C28: handleOps executes an operation that names the paymaster in
\* paymasterAndData only if validatePaymasterUserOp accepts it for some maxCost;
\* an operation the paymaster denies is not executed.
C28_SponsoredOnlyIfAccepted ==
    [][last'.fn = "handleOps"
          => \A i \in DOMAIN lastOps' :
                 lastOps'[i].paymasterAndData = PaymasterAddress
                     => \E m \in MaxCostInputs :
                            ValidatePaymasterUserOpRevert(
                                EntryPointAddress, lastOps'[i].sender,
                                DecodedCall(lastOps'[i]), m) = OK]_vars

\* C29: while the game is paused startSession, endSession, retryGame and
\* claimRewards of every player are rejected with 'Pausable: paused' and no
\* session, vesting schedule, attempt count, balance or allowance changes;
\* once unpaused the calls are no longer rejected for the pause, and pause
\* and unpause leave every session as it was.
C29_PausedBlocksPlayers ==
    /\ [](\A p \in Players :
             LET blocked(r) == r = "Pausable: paused" IN
             /\ paused => /\ blocked(StartSessionRevert(p))
                          /\ blocked(EndSessionRevert(p))
                          /\ blocked(RetryGameRevert(p))
                          /\ blocked(ClaimRewardsRevert(p))
             /\ ~paused => /\ ~blocked(StartSessionRevert(p))
                           /\ ~blocked(EndSessionRevert(p))
                           /\ ~blocked(RetryGameRevert(p))
                           /\ ~blocked(ClaimRewardsRevert(p)))
    /\ [][/\ paused
                => /\ last'.fn \notin {"startSession", "endSession",
                                       "retryGame", "claimRewards"}
                   /\ UNCHANGED <<tokenVars, playerVars, totalUnclaimedRewards,
                                  configVars>>
          /\ last'.fn \in {"pause", "unpause"}
                => /\ paused' = (last'.fn = "pause")
                   /\ UNCHANGED <<tokenVars, playerVars, totalUnclaimedRewards,
                                  configVars>>]_vars

\* the game was unpaused with a session that began before the pause and can
\* be ended now
C29_Witness ==
    /\ last.fn = "unpause"
    /\ \E p \in Players :
          /\ sessions[p].isActive
          /\ now >= sessions[p].startTime + minSessionDuration
          /\ EndSessionRevert(p) = OK

\* the admin functions of the game and of the paymaster
AdminFunctions ==
    {"setSessionCost", "setRewardRate", "setVestingDuration",
     "setMaxSessionDuration", "depositRewardPool", "withdrawRewardPool",
     "pause", "unpause", "setGameContract", "setLimits", "setAllowedSelector",
     "deposit", "withdrawTo"}

\* C30: every admin function of the game and of the paymaster called by a
\* non-owner is rejected with 'Ownable: caller is not the owner', whatever its
\* arguments; an admin call that goes through is the owner's, and no
\* configuration value, pause flag, pool balance or paymaster deposit changes
\* but by such a call.
C30_OnlyOwnerConfigures ==
    /\ [](\A c \in Callers \ {Owner} :
             LET rejected(r) == r = "Ownable: caller is not the owner" IN
             /\ \A cost \in {0, 1, 2} : rejected(SetSessionCostRevert(c, cost))
             /\ \A rate \in RateInputs : rejected(SetRewardRateRevert(c, rate))
             /\ \A d \in VestingInputs : rejected(SetVestingDurationRevert(c, d))
             /\ \A d \in MaxDurationInputs :
                    rejected(SetMaxSessionDurationRevert(c, d))
             /\ \A amount \in WithdrawInputs :
                    /\ rejected(DepositRewardPoolRevert(c, amount))
                    /\ rejected(WithdrawRewardPoolRevert(c, amount))
                    /\ rejected(WithdrawToRevert(c, amount))
             /\ rejected(PauseRevert(c))
             /\ rejected(UnpauseRevert(c))
             /\ \A g \in {Game, AddressZero} :
                    rejected(SetGameContractRevert(c, g))
             /\ rejected(OnlyOwnerRevert(c)))
    /\ [][/\ last'.fn \in AdminFunctions => last'.caller = Owner
          /\ (\/ configVars' # configVars
              \/ paused' # paused
              \/ balances' # balances
              \/ <<gameContract, limitVars, allowedSelectors, paymasterDeposit>>'
                     # <<gameContract, limitVars, allowedSelectors, paymasterDeposit>>)
                 => last'.fn \in AdminFunctions /\ last'.caller = Owner]_vars

\* the owner has changed the configuration of the game and of the paymaster,
\* and a player who could pay a deposit to the pool is rejected as non-owner
C30_Witness ==
    /\ last.fn = "setLimits"
    /\ last.caller = Owner
    /\ paused
    /\ sessionCost = 2
    /\ gameContract = Game
    /\ "retryGame" \in allowedSelectors
    /\ \E c \in Players :
          /\ TransferFromRevert(c, 1) = OK
          /\ DepositRewardPoolRevert(c, 1) = "Ownable: caller is not the owner"

\* C31: execute and executeBatch run their calls only for the account's owner
\* or the entry point: every other caller is rejected with 'not authorized',
\* an account's tokens move only in a call by its owner or the entry point, and validateUserOp is rejected for every caller but the
\* entry point
C31_OnlyOwnerOrEntryPoint ==
    /\ [](/\ \A c \in Keys \cup {EntryPointAddress, Bundler}, a \in Players,
               n \in {1, 2}, ms \in {<<1>>, <<1, 1>>, <<2>>} :
               c \notin {AccountOwner(a), EntryPointAddress}
                   <=> ExecuteBatchRevert(c, a, n, ms)
                           = "TalismanAccount: not authorized"
          /\ userOp # NoUserOp
                 => \A c \in Keys \cup {Bundler}, h \in UserOpHashInputs(userOp) :
                        ValidateUserOpRevert(c, userOp, h)
                            = "TalismanAccount: not EntryPoint")
    /\ [][/\ \A a \in Players :
               balances'[a] # balances[a]
                   => /\ last'.fn \in {"execute", "executeBatch"}
                      /\ last'.caller \in {AccountOwner(a), EntryPointAddress}
                      /\ balances'[a] = balances[a] - last'.amount
          /\ lastValidation' # lastValidation /\ lastValidation' # NoValidation
                 => ValidateUserOpRevert(EntryPointAddress, lastValidation'.userOp,
                                         lastValidation'.userOpHash) = OK]_vars

C31_Witness ==
    /\ last.fn = "executeBatch"
    /\ last.caller = AccountOwner("p1")
    /\ last.amount = 2
    /\ balances["p1"] = PlayerFunding - 2
    /\ balances["p2"] = PlayerFunding

\* C32: retryGame without an active session is rejected with 'no active
\* session' and debits nothing, and a retry that goes through leaves every
\* field of every session record as it was, so the startTime that endSession
\* measures from is the one startSession wrote
C32_RetryKeepsSession ==
    /\ [](\A p \in Players :
              ~paused /\ ~sessions[p].isActive
                  => RetryGameRevert(p) = "TalismanGame: no active session")
    /\ [][\A p \in Players :
              /\ By("retryGame", p)
                     => /\ sessions[p].isActive
                        /\ sessions' = sessions
              /\ ~sessions[p].isActive /\ ~sessions'[p].isActive
                     => balances'[p] >= balances[p]
              /\ By("endSession", p)
                     => last'.duration
                            = IF now - sessions[p].startTime > maxSessionDuration
                              THEN maxSessionDuration
                              ELSE now - sessions[p].startTime]_vars

C32_Witness ==
    /\ last.fn = "retryGame"
    /\ last.caller = "p1"
    /\ attemptCounts["p1"] = 2
    /\ sessions["p1"].isActive
    /\ sessions["p1"].startTime = 0
    /\ now = 2

\* C33: calls of different players commute: a call of one player that goes
\* through leaves the success or failure of every call another player can
\* make at the same time as it was before
C33_PlayersCommute ==
    [][\A p \in Players, q \in Players :
           /\ q # p
           /\ last'.caller = p
           /\ last'.fn \in {"startSession", "endSession", "retryGame",
                             "claimRewards"}
           => /\ (StartSessionRevert(q) = OK) <=> (StartSessionRevert(q)' = OK)
              /\ (EndSessionRevert(q) = OK) <=> (EndSessionRevert(q)' = OK)
              /\ (RetryGameRevert(q) = OK) <=> (RetryGameRevert(q)' = OK)
              /\ (ClaimRewardsRevert(q) = OK) <=> (ClaimRewardsRevert(q)' = OK)]_vars

\* C34: a player call that is rejected fails with one of its reasons: the
\* pause, the session checks, 'nothing to claim', 'insufficient reward pool'
\* or the token ledger's balance and allowance errors, never with an
\* arithmetic error; claimRewards fails with 'nothing to claim' whenever
\* nothing is claimable
C34_LabelledRejections ==
    \A p \in Players :
        /\ {StartSessionRevert(p), EndSessionRevert(p), RetryGameRevert(p),
            ClaimRewardsRevert(p)}
               \subseteq {OK, "Pausable: paused",
                          "TalismanGame: session already active",
                          "TalismanGame: no active session",
                          "TalismanGame: session too short",
                          "TalismanGame: nothing to claim",
                          "TalismanGame: insufficient reward pool",
                          "ERC20: insufficient allowance",
                          "ERC20: transfer amount exceeds balance"}
        /\ ~paused /\ Unclaimed(p) = 0
               => ClaimRewardsRevert(p) = "TalismanGame: nothing to claim"

\* C35: a session record becomes active only in its player's startSession,
\* which writes startTime = now and zero endTime, rewardEarned and
\* talismansCollected; it becomes inactive only in its player's endSession,
\* which writes endTime = now >= startTime; no other step changes any field
\* of the record, so an ended session keeps its rewardEarned, endTime and
\* talismansCollected until its player starts a new one
C35_SessionLifecycle ==
    /\ [](\A p \in Players :
              /\ sessions[p].isActive
                     => sessions[p].endTime = 0 /\ sessions[p].rewardEarned = 0
              /\ ~sessions[p].isActive
                     => sessions[p].startTime <= sessions[p].endTime)
    /\ [][\A p \in Players :
              /\ ~sessions[p].isActive /\ sessions'[p].isActive
                     => /\ By("startSession", p)
                        /\ sessions'[p] = [startTime |-> now, endTime |-> 0,
                                           rewardEarned |-> 0,
                                           talismansCollected |-> 0,
                                           isActive |-> TRUE]
              /\ sessions[p].isActive /\ ~sessions'[p].isActive
                     => /\ By("endSession", p)
                        /\ sessions'[p].startTime = sessions[p].startTime
                        /\ sessions'[p].endTime = now
                        /\ sessions'[p].rewardEarned = last'.amount
              /\ sessions'[p] # sessions[p]
                     => sessions'[p].isActive # sessions[p].isActive]_vars

C35_Witness ==
    /\ last.fn = "startSession"
    /\ last.caller = "p1"
    /\ sessions["p1"].startTime = 2
    /\ vestingSchedules["p1"].totalAmount > 0
    /\ ~sessions["p2"].isActive
    /\ sessions["p2"].endTime = 2
    /\ sessions["p2"].rewardEarned > 0

\* C36: the attempt count of a player who has started a session is at least
\* 1; the player's startSession sets it to 1, each retryGame of the player
\* that goes through adds exactly 1, and every other step (endSession,
\* claimRewards, the calls of other players) leaves it as it was, so it
\* equals 1 plus the retries since the last startSession
C36_AttemptCount ==
    /\ [](\A p \in Players :
              sessions[p].isActive \/ sessions[p].endTime > 0
                  => attemptCounts[p] >= 1)
    /\ [][\A p \in Players :
              attemptCounts'[p] =
                  IF By("startSession", p) THEN 1
                  ELSE IF By("retryGame", p) THEN attemptCounts[p] + 1
                  ELSE attemptCounts[p]]_vars

C36_Witness ==
    /\ last.fn = "endSession"
    /\ last.caller = "p1"
    /\ attemptCounts["p1"] = 2
    /\ attemptCounts["p2"] = 1
    /\ sessions["p2"].isActive

\* C37: startSession and retryGame are rejected when the caller's balance or
\* allowance is below sessionCost; each one that goes through moves exactly
\* sessionCost from the caller to the engine and touches no other balance; a
\* session is created or an attempt counted only in a step that makes this
\* transfer; endSession moves no tokens
C37_SessionCostMoves ==
    /\ [](\A p \in Players :
              balances[p] < sessionCost \/ allowances[p] < sessionCost
                  => /\ StartSessionRevert(p) # OK
                     /\ RetryGameRevert(p) # OK)
    /\ [][\A p \in Players :
              /\ By("startSession", p) \/ By("retryGame", p)
                     => /\ last'.amount = sessionCost
                        /\ balances' = [balances EXCEPT
                                           ![p] = @ - sessionCost,
                                           ![Game] = @ + sessionCost]
                        /\ allowances'[p] = allowances[p] - sessionCost
              /\ \/ ~sessions[p].isActive /\ sessions'[p].isActive
                 \/ attemptCounts'[p] # attemptCounts[p]
                     => /\ balances'[p] = balances[p] - sessionCost
                        /\ balances'[Game] = balances[Game] + sessionCost
              /\ By("endSession", p) => UNCHANGED tokenVars]_vars

C37_Witness ==
    /\ last.fn = "retryGame"
    /\ last.caller = "p1"
    /\ last.amount = sessionCost
    /\ balances["p1"] = PlayerFunding - 2 * sessionCost
    /\ balances[Game] = PoolFunding + 2 * sessionCost
    /\ RetryGameRevert("p1") = "ERC20: transfer amount exceeds balance"

\* C39: the dispatcher's native balance is at least the sum of the deposits
\* it records, so every account can withdraw up to its deposit
C39_DepositsBacked ==
    entryPointBalance >= SumOver(deposits, Players)

\* C38: getNonce(sender, 0) never decreases and changes only in a handleOps
\* that goes through, by one for each operation of the batch whose sender it
\* is, so not at all for a sender the batch does not name; building and
\* signing an operation, and the failure of a build, a signature request or
\* a submission, leave every nonce as it was
C38_NonceOnlyInHandleOps ==
    [][\A a \in Players :
           /\ GetNonce(a, 0).sequence' >= GetNonce(a, 0).sequence
           /\ GetNonce(a, 0).sequence' # GetNonce(a, 0).sequence
                  => last'.fn = "handleOps"
           /\ last'.fn = "handleOps"
                  => GetNonce(a, 0).sequence'
                         = GetNonce(a, 0).sequence
                             + Cardinality({i \in DOMAIN lastOps' :
                                               lastOps'[i].sender = a})
           /\ hook'.promise = "rejected" /\ hook' # hook
                  => GetNonce(a, 0).sequence' = GetNonce(a, 0).sequence]_vars

C38_Witness ==
    /\ GetNonce("p1", 0).sequence = 1
    /\ GetNonce("p2", 0).sequence = 2
    /\ userOp.sender = "p1"
    /\ userOp.nonce = 1
    /\ hook.error = "User rejected the request"
    /\ hook.promise = "rejected"

\* C40: a call of executeViaAccount that fails leaves the hook with
\* isPending = false, isSuccess = false and error set, and one that submitted
\* its operation leaves it with isPending = false, isSuccess = true and
\* error = null; handleOps is submitted only for a signed operation
C40_HookSettles ==
    /\ hook.promise = "rejected"
           => ~hook.isPending /\ ~hook.isSuccess /\ hook.error # "null"
    /\ hook.promise = "resolved"
           => ~hook.isPending /\ hook.isSuccess /\ hook.error = "null"
    /\ hook.step = "submit" => userOp.signature # EmptySignature

====
